---- MODULE Spec2Model ----
(***************************************************************************)
(* A model of visio-insight-ai: the table parsers (utils/parseData), the   *)
(* chart-type advisor, the colour resolver and the per-kind dataset        *)
(* mapping of ChartRenderer, the Builder's state and the UploadPanel's     *)
(* asynchronous handlers.                                                  *)
(*                                                                         *)
(* Representation.  A JavaScript string is a sequence of one-character     *)
(* strings (Text), so that trim, replace and numeric parsing are computed. *)
(* A JavaScript value is a record [t, n, s]: t is its type tag, n the      *)
(* number (fixed point, in units of 1/NumScale), s the text.  null,        *)
(* undefined and NaN are the tags "null", "undef" and "nan".               *)
(***************************************************************************)
EXTENDS Integers, Sequences, FiniteSets, TLC

\* ------------------------------------------------------------- bounds
\* Longest raw cell text enumerated for the coercion rule.
MaxTextLen == 3
\* Most columns of an enumerated raw source (CSV grid or sheet records).
MaxCols == 2
\* Most data rows of an enumerated raw source.
MaxDataRows == 1

\* ------------------------------------------------------------- values
RECURSIVE Pow10(_)
Pow10(k) == IF k = 0 THEN 1 ELSE 10 * Pow10(k - 1)

\* Digits kept after the decimal point by the fixed-point numbers: enough
\* for every enumerated text.
FracDigits == MaxTextLen
NumScale == Pow10(FracDigits)

Null == [t |-> "null", n |-> 0, s |-> <<>>]
Undef == [t |-> "undef", n |-> 0, s |-> <<>>]
NaN == [t |-> "nan", n |-> 0, s |-> <<>>]
\* The number n / NumScale.
Num(n) == [t |-> "num", n |-> n, s |-> <<>>]
\* The integer k as a number.
IntNum(k) == Num(k * NumScale)
Str(s) == [t |-> "str", n |-> 0, s |-> s]

IsNum(v) == v.t = "num"
IsStr(v) == v.t = "str"
\* v ?? d
Coalesce(v, d) == IF v.t \in {"null", "undef"} THEN d ELSE v
\* JavaScript truthiness: false for null, undefined, NaN, 0 and "".
Truthy(v) ==
  CASE v.t = "num" -> v.n # 0
    [] v.t = "str" -> v.s # <<>>
    [] OTHER -> FALSE
\* a || b
OrElse(a, b) == IF Truthy(a) THEN a ELSE b

\* ------------------------------------------------------------- text
DigitChars == {"0", "1", "2", "3", "4", "5", "6", "7", "8", "9"}
DigitSeq == <<"0", "1", "2", "3", "4", "5", "6", "7", "8", "9">>
DigitVal(c) == (CHOOSE i \in 1..10 : DigitSeq[i] = c) - 1
WhiteChars == {" "}

RECURSIVE TrimStart(_)
TrimStart(s) ==
  IF s # <<>> /\ Head(s) \in WhiteChars THEN TrimStart(Tail(s)) ELSE s
RECURSIVE TrimEnd(_)
TrimEnd(s) ==
  IF s # <<>> /\ s[Len(s)] \in WhiteChars
  THEN TrimEnd(SubSeq(s, 1, Len(s) - 1)) ELSE s
\* String.prototype.trim
Trim(s) == TrimEnd(TrimStart(s))

IsNotComma(c) == c # ","
\* s.replace(/,/g, "")
StripCommas(s) == SelectSeq(s, IsNotComma)

RECURSIVE NatOfDigits(_)
NatOfDigits(ds) ==
  IF ds = <<>> THEN 0
  ELSE 10 * NatOfDigits(SubSeq(ds, 1, Len(ds) - 1)) + DigitVal(ds[Len(ds)])

RECURSIVE DigitsOfNat(_)
\* The decimal digits of a natural number.
DigitsOfNat(k) ==
  IF k < 10 THEN <<DigitSeq[k + 1]>>
  ELSE DigitsOfNat(k \div 10) \o <<DigitSeq[(k % 10) + 1]>>

RECURSIVE PadLeft(_, _)
PadLeft(ds, w) == IF Len(ds) >= w THEN ds ELSE PadLeft(<<"0">> \o ds, w)
RECURSIVE DropTrailingZeros(_)
DropTrailingZeros(ds) ==
  IF ds # <<>> /\ ds[Len(ds)] = "0"
  THEN DropTrailingZeros(SubSeq(ds, 1, Len(ds) - 1)) ELSE ds

\* String(n) of a number (decimal notation; the exponent forms need
\* magnitudes the model does not reach).
NumToText(n) ==
  LET a == IF n < 0 THEN 0 - n ELSE n
      frac == DropTrailingZeros(PadLeft(DigitsOfNat(a % NumScale), FracDigits))
  IN (IF n < 0 THEN <<"-">> ELSE <<>>)
     \o DigitsOfNat(a \div NumScale)
     \o (IF frac = <<>> THEN <<>> ELSE <<".">> \o frac)

\* String(v)
ToText(v) ==
  CASE v.t = "str" -> v.s
    [] v.t = "num" -> NumToText(v.n)
    [] v.t = "null" -> <<"n", "u", "l", "l">>
    [] v.t = "nan" -> <<"N", "a", "N">>
    [] OTHER -> <<"u", "n", "d", "e", "f", "i", "n", "e", "d">>

\* The part of a decimal literal before / after its first ".".
RECURSIVE BeforeDot(_)
BeforeDot(s) ==
  IF s = <<>> \/ Head(s) = "." THEN <<>> ELSE <<Head(s)>> \o BeforeDot(Tail(s))
RECURSIVE AfterDot(_)
AfterDot(s) ==
  IF s = <<>> THEN <<>> ELSE IF Head(s) = "." THEN Tail(s) ELSE AfterDot(Tail(s))

AllDigits(s) == \A i \in 1..Len(s) : s[i] \in DigitChars

\* StrUnsignedDecimalLiteral without exponent: digits, digits. , digits.digits
\* or .digits
IsDecimalLiteral(s) ==
  /\ AllDigits(BeforeDot(s))
  /\ AllDigits(AfterDot(s))
  /\ Len(BeforeDot(s)) + Len(AfterDot(s)) >= 1

DecimalValue(s) ==
  LET f == AfterDot(s)
      kept == IF Len(f) > FracDigits THEN SubSeq(f, 1, FracDigits) ELSE f
  IN NatOfDigits(BeforeDot(s)) * NumScale
     + NatOfDigits(kept) * Pow10(FracDigits - Len(kept))

\* Number(s) for a string: surrounding white space is ignored, the empty
\* string is 0, a signed decimal literal is its value, anything else NaN.
\* (The exponent, Infinity and 0x/0o/0b forms need the characters e, I, x,
\* o, b, which are ordinary letters to this model's raw texts only when the
\* whole text is a literal of that form; the enumerated texts hold none.)
NumberOfText(s) ==
  LET t == Trim(s)
      signed == t # <<>> /\ Head(t) \in {"+", "-"}
      body == IF signed THEN Tail(t) ELSE t
  IN IF t = <<>> THEN Num(0)
     ELSE IF IsDecimalLiteral(body)
          THEN Num((IF Head(t) = "-" THEN 0 - 1 ELSE 1) * DecimalValue(body))
          ELSE NaN

\* ------------------------------------------------------------- parseData
\* A mutant of toNumberIfPossible that parses without removing the commas.
toNumberIfPossible_KeepCommas(v) ==
  IF v.t \in {"null", "undef"} THEN Null
  ELSE IF v.t = "num" THEN v
  ELSE LET s == Trim(ToText(v))
           n == NumberOfText(s)
       IN IF s = <<>> THEN Null ELSE IF n.t = "nan" THEN Str(s) ELSE n

toNumberIfPossible(v) ==
  IF v.t \in {"null", "undef"} THEN Null
  ELSE IF v.t = "num" THEN v
  ELSE LET s == Trim(ToText(v))
           n == NumberOfText(StripCommas(s))
       IN IF s = <<>> THEN Null ELSE IF n.t = "nan" THEN Str(s) ELSE n

\* r[i] of a JavaScript array (0-based i): undefined past its end.
At(arr, i) == IF i + 1 \in 1..Len(arr) THEN arr[i + 1] ELSE Undef

\* The names of a sequence, as a set.
Range(seq) == {seq[i] : i \in 1..Len(seq)}

\* The greatest index at which header h stands: a later assignment to the
\* same key of a row overwrites an earlier one.
LastIndexOf(keys, h) == CHOOSE i \in 1..Len(keys) :
  keys[i] = h /\ \A j \in 1..Len(keys) : keys[j] = h => j <= i

COL == <<"c", "o", "l">>
\* String(h ?? "col")
HeaderName(h) == ToText(Coalesce(h, Str(COL)))
\* String(h ?? `col_${i}`)
RowKey(h, i) == ToText(Coalesce(h, Str(COL \o <<"_">> \o DigitsOfNat(i))))

\* One row of the table from one array of cells r, under the header array.
GridRow(header, r) ==
  LET keys == [i \in 1..Len(header) |-> RowKey(header[i], i - 1)]
  IN [h \in Range(keys) |-> toNumberIfPossible(At(r, LastIndexOf(keys, h) - 1))]

Failed(msg) == [ok |-> FALSE, error |-> msg, table |-> [headers |-> <<>>, rows |-> <<>>]]
Parsed(tbl) == [ok |-> TRUE, error |-> "", table |-> tbl]

\* parseCSV on the rows Papa.parse returns (arrays of strings, empty lines
\* skipped).  With no row at all header is undefined and header.map throws.
parseCSV(data) ==
  IF data = <<>> THEN Failed("TypeError")
  ELSE LET header == Head(data)
           rows == Tail(data)
       IN Parsed([headers |-> [i \in 1..Len(header) |-> HeaderName(header[i])],
                  rows |-> [k \in 1..Len(rows) |-> GridRow(header, rows[k])]])

\* parseXLSX on the records sheet_to_json returns: each record is its keys
\* in insertion order and its cells by key.  Object.keys(json[0] ?? {}).
parseXLSX(json) ==
  LET headers == IF Len(json) = 0 THEN <<>> ELSE json[1].keys
  IN Parsed([headers |-> headers,
             rows |-> [k \in 1..Len(json) |->
                        [h \in Range(headers) |->
                           toNumberIfPossible(
                             IF h \in DOMAIN json[k].cells THEN json[k].cells[h]
                             ELSE Undef)]]])

\* text.indexOf(pat) + 1: the place of the first occurrence of pat in text,
\* 0 when there is none.
IndexOfText(text, pat) ==
  LET at == {i \in 1..(Len(text) - Len(pat) + 1) :
               SubSeq(text, i, i + Len(pat) - 1) = pat}
  IN IF at = {} THEN 0 ELSE CHOOSE i \in at : \A j \in at : i <= j
\* text.includes(pat)
Includes(text, pat) == IndexOfText(text, pat) # 0

EditText == <<"/", "e", "d", "i", "t">>
GidText == <<"g", "i", "d", "=">>
FormatCsvText == <<"f", "o", "r", "m", "a", "t", "=", "c", "s", "v">>
\* "export?format=csv"
CsvExportText == <<"e", "x", "p", "o", "r", "t", "?">> \o FormatCsvText
\* "/export?format=csv&gid="
ExportGidText == <<"/">> \o CsvExportText \o <<"&">> \o GidText

\* The digits text[from], text[from + 1], ... up to the first character that
\* is no digit.
RECURSIVE DigitRun(_, _)
DigitRun(text, from) ==
  IF from <= Len(text) /\ text[from] \in DigitChars
  THEN <<text[from]>> \o DigitRun(text, from + 1)
  ELSE <<>>

\* exportUrl.match(/gid=(\d+)/): the digits of the first "gid=" that a digit
\* follows, <<>> when the pattern does not match.
GidMatch(text) ==
  LET at == {i \in 1..(Len(text) - Len(GidText)) :
               /\ SubSeq(text, i, i + Len(GidText) - 1) = GidText
               /\ text[i + Len(GidText)] \in DigitChars}
  IN IF at = {} THEN <<>>
     ELSE DigitRun(text, (CHOOSE i \in at : \A j \in at : i <= j) + Len(GidText))

\* A mutant of ExportUrlOf that leaves alone every URL that holds
\* "format=csv", not only those that hold "export?format=csv".
ExportUrlOf_AnyFormatCsv(given) ==
  LET trimmed == Trim(given)
      gid == IF GidMatch(trimmed) = <<>> THEN <<"0">> ELSE GidMatch(trimmed)
  IN IF Includes(trimmed, EditText)
     THEN SubSeq(trimmed, 1, IndexOfText(trimmed, EditText) - 1) \o ExportGidText \o gid
     ELSE IF ~Includes(trimmed, FormatCsvText)
     THEN trimmed \o (IF Includes(trimmed, <<"?">>) THEN <<"&">> ELSE <<"?">>)
                  \o FormatCsvText
     ELSE trimmed

\* The URL parseGoogleSheet fetches for the URL given (a text without line
\* breaks).
ExportUrlOf(given) ==
  LET trimmed == Trim(given)
      gid == IF GidMatch(trimmed) = <<>> THEN <<"0">> ELSE GidMatch(trimmed)
  IN IF Includes(trimmed, EditText)
     \* exportUrl.replace(/\/edit.*$/, `/export?format=csv&gid=${gid}`)
     THEN SubSeq(trimmed, 1, IndexOfText(trimmed, EditText) - 1) \o ExportGidText \o gid
     ELSE IF ~Includes(trimmed, CsvExportText)
     THEN trimmed \o (IF Includes(trimmed, <<"?">>) THEN <<"&">> ELSE <<"?">>)
                  \o FormatCsvText
     ELSE trimmed

FetchFailedMessage == "Failed to fetch Google Sheet. Make sure it's public."

\* A mutant of parseGoogleSheet that parses the body of any response.
parseGoogleSheet_IgnoreStatus(resOk, data) ==
  LET header == IF data = <<>> THEN <<>> ELSE Head(data)
      rows == IF data = <<>> THEN <<>> ELSE Tail(data)
  IN Parsed([headers |-> [i \in 1..Len(header) |-> HeaderName(header[i])],
             rows |-> [k \in 1..Len(rows) |-> GridRow(header, rows[k])]])

\* parseGoogleSheet after the URL rewrite: the response's ok flag and the
\* rows Papa.parse returns for its text.
parseGoogleSheet(resOk, data) ==
  IF ~resOk THEN Failed(FetchFailedMessage)
  ELSE LET header == IF data = <<>> THEN <<>> ELSE Head(data)
           rows == IF data = <<>> THEN <<>> ELSE Tail(data)
       IN Parsed([headers |-> [i \in 1..Len(header) |-> HeaderName(header[i])],
                  rows |-> [k \in 1..Len(rows) |-> GridRow(header, rows[k])]])

\* ------------------------------------------------------------- columns
\* r[key]: the property of row r named String(key), undefined when absent.
Get(r, key) == IF ToText(key) \in DOMAIN r THEN r[ToText(key)] ELSE Undef

\* arr[i] of an array of header names (0-based i), as a value.
KeyAt(names, i) == IF i + 1 \in 1..Len(names) THEN Str(names[i + 1]) ELSE Undef

\* headers.filter((h) => rows.some((r) => typeof r[h] === tag))
ColumnsBearing(headers, rows, tag) ==
  LET Bears(h) == \E k \in 1..Len(rows) : Get(rows[k], Str(h)).t = tag
  IN SelectSeq(headers, Bears)

extractNumericColumns(tbl) == ColumnsBearing(tbl.headers, tbl.rows, "num")
extractCategoricalColumns(tbl) == ColumnsBearing(tbl.headers, tbl.rows, "str")

\* ------------------------------------------------------------- advisor
PieMaxHeaders == 2
PieMaxRows == 8
LineMinRows == 50

\* A mutant of suggestChartType that tests the row count before the columns.
suggestChartType_RowsFirst(headers, rows) ==
  LET numericColumns == ColumnsBearing(headers, rows, "num")
      categoricalColumns == ColumnsBearing(headers, rows, "str")
  IN IF Len(rows) > LineMinRows THEN "line"
     ELSE IF Len(numericColumns) >= 2 THEN "scatter"
     ELSE IF Len(numericColumns) = 1 /\ Len(categoricalColumns) >= 1 THEN "column"
     ELSE IF Len(headers) <= PieMaxHeaders /\ Len(rows) <= PieMaxRows THEN "pie"
     ELSE "table"

\* A mutant of suggestChartType that suggests the horizontal bar chart where
\* the code suggests column.
suggestChartType_BarForColumn(headers, rows) ==
  LET numericColumns == ColumnsBearing(headers, rows, "num")
      categoricalColumns == ColumnsBearing(headers, rows, "str")
  IN IF Len(numericColumns) >= 2 THEN "scatter"
     ELSE IF Len(numericColumns) = 1 /\ Len(categoricalColumns) >= 1 THEN "bar"
     ELSE IF Len(headers) <= PieMaxHeaders /\ Len(rows) <= PieMaxRows THEN "pie"
     ELSE IF Len(rows) > LineMinRows THEN "line"
     ELSE "table"

suggestChartType(headers, rows) ==
  LET numericColumns == ColumnsBearing(headers, rows, "num")
      categoricalColumns == ColumnsBearing(headers, rows, "str")
  IN IF Len(numericColumns) >= 2 THEN "scatter"
     ELSE IF Len(numericColumns) = 1 /\ Len(categoricalColumns) >= 1 THEN "column"
     ELSE IF Len(headers) <= PieMaxHeaders /\ Len(rows) <= PieMaxRows THEN "pie"
     ELSE IF Len(rows) > LineMinRows THEN "line"
     ELSE "table"

\* ------------------------------------------------------------- colours
\* Alpha is kept in ten-thousandths: AlphaOne is the alpha 1.
AlphaOne == 100 * 100
Clamp(lo, x, hi) == IF x < lo THEN lo ELSE IF x > hi THEN hi ELSE x

HexSeq == <<"0", "1", "2", "3", "4", "5", "6", "7", "8", "9",
            "a", "b", "c", "d", "e", "f">>
IsHexChar(c) == \E i \in 1..16 : HexSeq[i] = c
HexVal(c) == (CHOOSE i \in 1..16 : HexSeq[i] = c) - 1

\* parseInt(s, 16) of at most two characters: the value of the longest
\* prefix of hexadecimal digits, NaN (written -1) when there is none.
ParseHexPair(s) ==
  IF s = <<>> \/ ~IsHexChar(s[1]) THEN 0 - 1
  ELSE IF Len(s) = 1 \/ ~IsHexChar(s[2]) THEN HexVal(s[1])
  ELSE 16 * HexVal(s[1]) + HexVal(s[2])

\* hex.replace('#', ''): the first '#' only.
RECURSIVE DropFirstHash(_)
DropFirstHash(s) ==
  IF s = <<>> THEN <<>>
  ELSE IF Head(s) = "#" THEN Tail(s)
  ELSE <<Head(s)>> \o DropFirstHash(Tail(s))

\* h.substring(a, b)
Substring(h, a, b) ==
  LET lo == IF a > Len(h) THEN Len(h) ELSE a
      hi == IF b > Len(h) THEN Len(h) ELSE b
  IN SubSeq(h, lo + 1, hi)

\* The colour strings the renderer builds, by their parts.
Rgba(r, g, b, a) == [fn |-> "rgba", ch |-> <<r, g, b>>, v |-> "", a |-> a]
Hsl(v, a) == [fn |-> "hsl", ch |-> <<>>, v |-> v, a |-> a]
Literal(c) == [fn |-> "literal", ch |-> <<>>, v |-> c, a |-> AlphaOne]

hexToRgba(hex, alpha) ==
  LET h0 == DropFirstHash(hex)
      h == IF Len(h0) = 3 THEN <<h0[1], h0[1], h0[2], h0[2], h0[3], h0[3]>> ELSE h0
  IN Rgba(ParseHexPair(Substring(h, 0, 2)), ParseHexPair(Substring(h, 2, 4)),
          ParseHexPair(Substring(h, 4, 6)), Clamp(0, alpha, AlphaOne))

DefaultAccent == "#00e5ff"
\* hslVar(name, alpha) with no fallback argument, under the theme's values
\* of the CSS variables ("" for a variable the theme does not set).
hslVar(thm, name, alpha) ==
  IF thm[name] = "" THEN Literal(DefaultAccent) ELSE Hsl(thm[name], alpha)

\* A mutant of neonVars that lists the fifth colour twice.
neonVars_Six == <<"--chart-neon-1", "--chart-neon-2", "--chart-neon-3",
                  "--chart-neon-4", "--chart-neon-5", "--chart-neon-5">>

neonVars == <<"--chart-neon-1", "--chart-neon-2", "--chart-neon-3",
              "--chart-neon-4", "--chart-neon-5">>
colorfulVars == <<"--chart-color-1", "--chart-color-2", "--chart-color-3",
                  "--chart-color-4", "--chart-color-5", "--chart-color-6">>
CssVars == Range(neonVars) \cup Range(colorfulVars) \cup {"--primary"}

\* The colour configuration a render receives: props of ChartRenderer.
\* colorVar "" stands for undefined (both are falsy, and only that is read).

fromUser(cfg, fallbackVar, a) ==
  IF cfg.customHex # <<>> THEN hexToRgba(cfg.customHex, a)
  ELSE IF cfg.colorVar # "" THEN hslVar(cfg.theme, cfg.colorVar, a)
  ELSE hslVar(cfg.theme, fallbackVar, a)

\* A mutant of MonoScale that alternates a lighter and a darker step.
MonoScale_Alternating(index) == IF (index % 6) % 2 = 0 THEN 60 ELSE 95

\* 0.6 + (index % 6) * 0.07, in hundredths.
MonoScale(index) == 60 + (index % 6) * 7

\* A mutant of colorFor that lets the custom colour win over a pinned one.
colorFor_CustomFirst(cfg, index, label, a) ==
  LET key == ToText(label)
  IN IF cfg.customHex # <<>> THEN hexToRgba(cfg.customHex, a)
     ELSE IF key \in DOMAIN cfg.perValueColors /\ cfg.perValueColors[key] # <<>>
          THEN hexToRgba(cfg.perValueColors[key], a)
     ELSE IF cfg.colorVar # "" THEN hslVar(cfg.theme, cfg.colorVar, a)
     ELSE IF cfg.palette = "colorful"
          THEN hslVar(cfg.theme, colorfulVars[(index % Len(colorfulVars)) + 1], a)
     ELSE IF cfg.palette = "monochrome"
          THEN hslVar(cfg.theme, "--primary",
                      Clamp(AlphaOne \div 20, (a * MonoScale(index)) \div 100, AlphaOne))
     ELSE hslVar(cfg.theme, neonVars[(index % Len(neonVars)) + 1], a)

\* perValueColors holds only non-empty colours (Builder.setLabelColor deletes
\* the key of an empty one), so perValueColors[key] is truthy exactly when
\* key is one of its keys.
colorFor(cfg, index, label, a) ==
  LET key == ToText(label)
  IN IF key \in DOMAIN cfg.perValueColors /\ cfg.perValueColors[key] # <<>>
     THEN hexToRgba(cfg.perValueColors[key], a)
     ELSE IF cfg.customHex # <<>> THEN hexToRgba(cfg.customHex, a)
     ELSE IF cfg.colorVar # "" THEN hslVar(cfg.theme, cfg.colorVar, a)
     ELSE IF cfg.palette = "colorful"
          THEN hslVar(cfg.theme, colorfulVars[(index % Len(colorfulVars)) + 1], a)
     ELSE IF cfg.palette = "monochrome"
          THEN hslVar(cfg.theme, "--primary",
                      Clamp(AlphaOne \div 20, (a * MonoScale(index)) \div 100, AlphaOne))
     ELSE hslVar(cfg.theme, neonVars[(index % Len(neonVars)) + 1], a)

\* ------------------------------------------------------------- ChartRenderer
\* props: [table, chart, xField, yField, y2Field, cfg]; a field is a header
\* name as a value, or Undef.
RowText == <<"R", "o", "w", " ">>
StepText == <<"S", "t", "e", "p", " ">>

\* xField || catCols[0] || table.headers[0]
XOf(p) ==
  OrElse(OrElse(p.xField, KeyAt(extractCategoricalColumns(p.table), 0)),
         KeyAt(p.table.headers, 0))
\* yField || numericCols[0] || table.headers[1]
YOf(p) ==
  OrElse(OrElse(p.yField, KeyAt(extractNumericColumns(p.table), 0)),
         KeyAt(p.table.headers, 1))

\* A mutant of LabelsOf that keeps a missing x cell as the label.
LabelsOf_NoSynthetic(p) ==
  [i \in 1..Len(p.table.rows) |-> Get(p.table.rows[i], XOf(p))]

\* table.rows.map((r, i) => r[x] ?? `Row ${i + 1}`)
LabelsOf(p) ==
  [i \in 1..Len(p.table.rows) |->
     Coalesce(Get(p.table.rows[i], XOf(p)), Str(RowText \o DigitsOfNat(i)))]

\* typeof r[key] === "number" ? r[key] : NaN
NumberOrNaN(r, key) == IF IsNum(Get(r, key)) THEN Get(r, key) ELSE NaN

\* A mutant of ValuesOf that leaves out the rows whose y cell is no number.
ValuesOf_DropNonNumeric(p) ==
  LET all == [i \in 1..Len(p.table.rows) |-> NumberOrNaN(p.table.rows[i], YOf(p))]
  IN SelectSeq(all, IsNum)

\* table.rows.map((r) => typeof r[y] === "number" ? r[y] : NaN)
ValuesOf(p) ==
  [i \in 1..Len(p.table.rows) |-> NumberOrNaN(p.table.rows[i], YOf(p))]

\* labels.map((lbl, i) => colorFor(i, lbl, a))
ColorsOf(p, labels, a) ==
  [i \in 1..Len(labels) |-> colorFor(p.cfg, i - 1, labels[i], a)]

\* Array.from(new Set(arr)): the distinct values in first-seen order.
RECURSIVE Distinct(_)
Distinct(arr) ==
  IF arr = <<>> THEN <<>>
  ELSE LET front == Distinct(SubSeq(arr, 1, Len(arr) - 1))
           last == arr[Len(arr)]
       IN IF last \in Range(front) THEN front ELSE Append(front, last)

\* const alphaBase = 1
alphaBase == AlphaOne

PieData(p) ==
  [kind |-> "pie", labels |-> LabelsOf(p), label |-> YOf(p), data |-> ValuesOf(p),
   backgroundColor |-> ColorsOf(p, LabelsOf(p), AlphaOne)]

LineData(p) ==
  [kind |-> "line", labels |-> LabelsOf(p), label |-> YOf(p), data |-> ValuesOf(p),
   borderColor |-> fromUser(p.cfg, "--chart-neon-1", AlphaOne),
   backgroundColor |-> fromUser(p.cfg, "--chart-neon-1", AlphaOne),
   pointBackgroundColor |-> ColorsOf(p, LabelsOf(p), AlphaOne)]

\* The rows of the scatter plot: both chosen cells are numbers.
ScatterRows(p, xNum, yNum) ==
  LET Both(r) == IsNum(Get(r, xNum)) /\ IsNum(Get(r, yNum))
  IN SelectSeq(p.table.rows, Both)

ScatterData(p) ==
  LET numericCols == extractNumericColumns(p.table)
      xNum == KeyAt(numericCols, 0)
      yNum == OrElse(KeyAt(numericCols, 1), KeyAt(numericCols, 0))
      kept == ScatterRows(p, xNum, yNum)
  IN IF Len(numericCols) = 0 THEN [kind |-> "message"]
     ELSE [kind |-> "scatter", xNum |-> xNum, yNum |-> yNum,
           data |-> [i \in 1..Len(kept) |->
                       [x |-> Get(kept[i], xNum), y |-> Get(kept[i], yNum)]],
           backgroundColor |-> [i \in 1..Len(kept) |->
              colorFor(p.cfg, i - 1,
                       Coalesce(Get(kept[i], XOf(p)), Str(RowText \o DigitsOfNat(i))),
                       IF alphaBase < AlphaOne \div 5 THEN AlphaOne \div 5 ELSE alphaBase)]]

ValueText == <<"V", "a", "l", "u", "e">>

\* The row table.rows.find(...) returns for the cell (xc, yc): its index,
\* 0 when no row matches.
HeatmapMatches(p, xc, yc) ==
  LET catCols == extractCategoricalColumns(p.table)
  IN {k \in 1..Len(p.table.rows) :
        /\ Get(p.table.rows[k], KeyAt(catCols, 0)) = xc
        /\ (~Truthy(KeyAt(catCols, 1)) \/ Get(p.table.rows[k], KeyAt(catCols, 1)) = yc)}

\* A mutant of HeatmapFind that returns the last matching row.
HeatmapFind_Last(p, xc, yc) ==
  LET m == HeatmapMatches(p, xc, yc)
  IN IF m = {} THEN 0 ELSE CHOOSE k \in m : \A j \in m : j <= k

HeatmapFind(p, xc, yc) ==
  LET m == HeatmapMatches(p, xc, yc)
  IN IF m = {} THEN 0 ELSE CHOOSE k \in m : \A j \in m : k <= j

\* (table.rows.find(...)?.[valueCol] as number) || 0
HeatmapCell(p, xc, yc) ==
  LET k == HeatmapFind(p, xc, yc)
      valueCol == KeyAt(extractNumericColumns(p.table), 0)
  IN OrElse(IF k = 0 THEN Undef ELSE Get(p.table.rows[k], valueCol), IntNum(0))

\* A mutant of HeatmapData whose x categories fall back to one synthetic
\* category instead of the row labels.
HeatmapData_SyntheticX(p) ==
  LET catCols == extractCategoricalColumns(p.table)
      xCats == IF Truthy(KeyAt(catCols, 0))
               THEN Distinct([k \in 1..Len(p.table.rows) |->
                                Get(p.table.rows[k], KeyAt(catCols, 0))])
               ELSE <<Str(ValueText)>>
      yCats == IF Truthy(KeyAt(catCols, 1))
               THEN Distinct([k \in 1..Len(p.table.rows) |->
                                Get(p.table.rows[k], KeyAt(catCols, 1))])
               ELSE <<Str(ValueText)>>
      nx == Len(xCats)
  IN [kind |-> "heatmap", labels |-> xCats, yCats |-> yCats,
      label |-> KeyAt(extractNumericColumns(p.table), 0),
      data |-> [c \in 1..(Len(yCats) * nx) |->
                  LET yi == (c - 1) \div nx
                      xi == (c - 1) % nx
                  IN [x |-> xi, y |-> yi, v |-> HeatmapCell(p, xCats[xi + 1], yCats[yi + 1])]],
      backgroundColor |-> fromUser(p.cfg, "--chart-neon-3", AlphaOne)]

HeatmapData(p) ==
  LET catCols == extractCategoricalColumns(p.table)
      xCats == IF Truthy(KeyAt(catCols, 0))
               THEN Distinct([k \in 1..Len(p.table.rows) |->
                                Get(p.table.rows[k], KeyAt(catCols, 0))])
               ELSE LabelsOf(p)
      yCats == IF Truthy(KeyAt(catCols, 1))
               THEN Distinct([k \in 1..Len(p.table.rows) |->
                                Get(p.table.rows[k], KeyAt(catCols, 1))])
               ELSE <<Str(ValueText)>>
      \* yCats.flatMap((yc, yi) => xCats.map((xc, xi) => ...)): row-major.
      nx == Len(xCats)
  IN [kind |-> "heatmap", labels |-> xCats, yCats |-> yCats,
      label |-> KeyAt(extractNumericColumns(p.table), 0),
      data |-> [c \in 1..(Len(yCats) * nx) |->
                  LET yi == (c - 1) \div nx
                      xi == (c - 1) % nx
                  IN [x |-> xi, y |-> yi, v |-> HeatmapCell(p, xCats[xi + 1], yCats[yi + 1])]],
      backgroundColor |-> fromUser(p.cfg, "--chart-neon-3", AlphaOne)]

\* hslVar(name) with no alpha argument: `hsl(${v})`; the alpha part is
\* written -1 for "absent".
hslVarOpaque(thm, name) ==
  IF thm[name] = "" THEN Literal(DefaultAccent) ELSE Hsl(thm[name], 0 - 1)

ComboData(p) ==
  LET y2 == OrElse(p.y2Field, KeyAt(extractNumericColumns(p.table), 1))
      bar == [type |-> "bar", label |-> YOf(p), data |-> ValuesOf(p),
              backgroundColor |-> ColorsOf(p, LabelsOf(p), alphaBase),
              borderColor |-> ColorsOf(p, LabelsOf(p), AlphaOne)]
      line == [type |-> "line", label |-> y2,
               data |-> [i \in 1..Len(p.table.rows) |-> NumberOrNaN(p.table.rows[i], y2)],
               backgroundColor |-> <<hslVar(p.cfg.theme, "--chart-neon-1", AlphaOne)>>,
               borderColor |-> <<hslVarOpaque(p.cfg.theme, "--chart-neon-1")>>]
  IN [kind |-> "combo", labels |-> LabelsOf(p),
      \* [bar, y2 && line].filter(Boolean)
      datasets |-> IF Truthy(y2) THEN <<bar, line>> ELSE <<bar>>]

\* rows.map((r, i) => ({ label: r[x] ?? `Step ${i + 1}`,
\*                       value: typeof r[y] === "number" ? r[y] : 0 }))
FunnelItems(p) ==
  [i \in 1..Len(p.table.rows) |->
     [label |-> Coalesce(Get(p.table.rows[i], XOf(p)), Str(StepText \o DigitsOfNat(i))),
      value |-> IF IsNum(Get(p.table.rows[i], YOf(p)))
                THEN Get(p.table.rows[i], YOf(p)) ELSE IntNum(0)]]

\* A mutant of InsertDesc that puts an item before the items equal to it.
InsertDesc_BeforeEqual(sorted, item) ==
  LET before == {i \in 1..Len(sorted) : sorted[i].value.n > item.value.n}
      k == Cardinality(before)
  IN SubSeq(sorted, 1, k) \o <<item>> \o SubSeq(sorted, k + 1, Len(sorted))

\* One step of the stable sort under (a, b) => b.value - a.value: the item
\* goes behind every item that does not compare after it.
InsertDesc(sorted, item) ==
  LET before == {i \in 1..Len(sorted) : item.value.n - sorted[i].value.n <= 0}
      k == Cardinality(before)
  IN SubSeq(sorted, 1, k) \o <<item>> \o SubSeq(sorted, k + 1, Len(sorted))

\* Array.prototype.sort((a, b) => b.value - a.value), which is stable.
RECURSIVE SortDesc(_)
SortDesc(items) ==
  IF items = <<>> THEN <<>>
  ELSE InsertDesc(SortDesc(SubSeq(items, 1, Len(items) - 1)), items[Len(items)])

FunnelMinThickness == 24
FunnelMaxThickness == 48

\* Math.max(...values) of a non-empty array of numbers.
MaxOf(values) == CHOOSE m \in Range(values) : \A v \in Range(values) : v.n <= m.n

\* barThickness of bar i: Math.max(24, 48 * (v / max)), as the fraction
\* num / den with den > 0.
BarThickness(sorted, i) ==
  LET max == OrElse(MaxOf([k \in 1..Len(sorted) |-> sorted[k].value]), IntNum(1))
      v == OrElse(sorted[i].value, IntNum(0))
      num == IF max.n < 0 THEN 0 - FunnelMaxThickness * v.n ELSE FunnelMaxThickness * v.n
      den == IF max.n < 0 THEN 0 - max.n ELSE max.n
  IN IF num < FunnelMinThickness * den
     THEN [num |-> FunnelMinThickness, den |-> 1]
     ELSE [num |-> num, den |-> den]

FunnelData(p) ==
  LET sorted == SortDesc(FunnelItems(p))
  IN [kind |-> "funnel",
      labels |-> [i \in 1..Len(sorted) |-> sorted[i].label],
      label |-> YOf(p),
      data |-> [i \in 1..Len(sorted) |-> sorted[i].value],
      backgroundColor |-> [i \in 1..Len(sorted) |->
                             colorFor(p.cfg, i - 1, sorted[i].label, AlphaOne)],
      barThickness |-> [i \in 1..Len(sorted) |-> BarThickness(sorted, i)]]

\* A mutant of BarData with the fill alpha of the earlier mapper:
\* Math.max(0.05, Math.min(1, opacity)).
BarData_OpacityAlpha(p) ==
  [kind |-> "bar", indexAxis |-> IF p.chart = "bar" THEN "y" ELSE "x",
   labels |-> LabelsOf(p), label |-> YOf(p), data |-> ValuesOf(p),
   backgroundColor |-> ColorsOf(p, LabelsOf(p),
                                IF p.opacity * 100 > AlphaOne THEN AlphaOne
                                ELSE IF p.opacity * 100 < AlphaOne \div 20
                                     THEN AlphaOne \div 20 ELSE p.opacity * 100),
   borderColor |-> ColorsOf(p, LabelsOf(p), AlphaOne)]

\* column or bar default
BarData(p) ==
  [kind |-> "bar", indexAxis |-> IF p.chart = "bar" THEN "y" ELSE "x",
   labels |-> LabelsOf(p), label |-> YOf(p), data |-> ValuesOf(p),
   backgroundColor |-> ColorsOf(p, LabelsOf(p), alphaBase),
   borderColor |-> ColorsOf(p, LabelsOf(p), AlphaOne)]

\* The data object ChartRenderer hands to the chart component.
ChartRenderer(p) ==
  CASE p.chart = "pie" -> PieData(p)
    [] p.chart = "line" -> LineData(p)
    [] p.chart = "scatter" -> ScatterData(p)
    [] p.chart = "heatmap" -> HeatmapData(p)
    [] p.chart = "combo" -> ComboData(p)
    [] p.chart = "funnel" -> FunnelData(p)
    [] OTHER -> BarData(p)

\* ------------------------------------------------------------- state
VARIABLES
  pending,         \* the parse calls in flight: records [id, src]
  nextReq,         \* the number of parse calls started so far
  page,            \* the route shown: "/" (UploadPanel) or "/builder"
  loaded,          \* whether location.state holds a parsed result
  table,           \* location.state.table
  tableFrom,       \* the parse call [id, src] whose result location.state is
  navCount,        \* how often handleParsed has navigated
  alertMsg,        \* the last message shown by alert ("": none)
  chart, xField, yField, y2Field,                      \* Builder state
  colorVar, customHex, opacity, palette, perValueColors,
  theme,           \* the document's values of the CSS variables
  url,             \* UploadPanel's url state: the text of the sheet URL input
  exportUrl,       \* the URL of the last fetch parseGoogleSheet made (<<>>: none)
  apiKey,          \* AIHelper's apiKey state (<<>>: no key)
  input,           \* AIHelper's input state: the text of the question field
  messages,        \* AIHelper's messages: records [role, content, ask], where
                   \* ask is the call of ask that appended it (0: the greeting)
  asking,          \* the calls of ask awaiting their fetch: records [id, question]
  nextAsk,         \* the number of calls of ask that got past the blank test
  applied,         \* the calls of onApply so far: records [ask, cmd, seen], seen
                   \* being the number of messages when the call was made
  dataset          \* the data object of the chart on screen

routerVars == <<page, loaded, table, tableFrom, navCount>>
builderVars == <<chart, xField, yField, y2Field, colorVar, customHex, opacity,
                 palette, perValueColors>>
uploadVars == <<url, exportUrl>>
helperVars == <<apiKey, input, messages, asking, nextAsk, applied>>
vars == <<pending, nextReq, routerVars, alertMsg, builderVars, theme, dataset,
          uploadVars, helperVars>>

EmptyTable == [headers |-> <<>>, rows |-> <<>>]
NoChart == [kind |-> "none"]
\* No parse call: location.state is undefined.
NoRequest == [id |-> 0, src |-> [kind |-> "none", data |-> <<>>, json |-> <<>>, ok |-> TRUE]]
\* perValueColors = {}
EmptyMap == [k \in {} |-> <<>>]

\* What the Builder shows for the route pg, location.state (ld: present) and
\* its state: nothing without a parsed result, the plain table for chart
\* "table", the ChartRenderer otherwise.
BuilderView(pg, ld, tbl, ch, xf, yf, y2f, cv, hex, op, pal, pvc, thm) ==
  IF pg # "/builder" \/ ~ld THEN NoChart
  ELSE IF ch = "table" THEN [kind |-> "table"]
  ELSE ChartRenderer([table |-> tbl, chart |-> ch, xField |-> xf, yField |-> yf,
                      y2Field |-> y2f, opacity |-> op,
                      cfg |-> [colorVar |-> cv, customHex |-> hex, palette |-> pal,
                               perValueColors |-> pvc, theme |-> thm]])

\* The render that follows every change of state.
Rerender ==
  dataset' = BuilderView(page', loaded', table', chart', xField', yField', y2Field',
                         colorVar', customHex', opacity', palette', perValueColors',
                         theme')

\* The parse a call runs, by the kind of its source.
ParseOf(src) ==
  CASE src.kind = "csv" -> parseCSV(src.data)
    [] src.kind = "xlsx" -> parseXLSX(src.json)
    [] OTHER -> parseGoogleSheet(src.ok, src.data)

FullTheme == [v \in CssVars |-> v]
BareTheme == [v \in CssVars |-> ""]

\* AIHelper's first message, which every mount starts with.
Greeting == [role |-> "assistant", content |-> <<"greeting">>, ask |-> 0]

\* The application as loaded: the upload page, nothing parsed.
InitWith(themes) ==
  /\ pending = {}
  /\ nextReq = 0
  /\ page = "/"
  /\ loaded = FALSE
  /\ table = EmptyTable
  /\ tableFrom = NoRequest
  /\ navCount = 0
  /\ alertMsg = ""
  /\ chart = "table"
  /\ xField = Undef /\ yField = Undef /\ y2Field = Undef
  /\ colorVar = ""
  /\ customHex = <<>>
  /\ opacity = 35
  /\ palette = "neon"
  /\ perValueColors = EmptyMap
  /\ theme \in themes
  /\ dataset = NoChart
  /\ url = <<>>
  /\ exportUrl = <<>>
  /\ apiKey = <<>>
  /\ input = <<>>
  /\ messages = <<Greeting>>
  /\ asking = {}
  /\ nextAsk = 0
  /\ applied = <<>>

Init == InitWith({FullTheme})

SqlMessage == "SQL parsing will be added soon. Please upload CSV/XLSX or a Google Sheet for now."
UnsupportedMessage == "Unsupported file type. Upload CSV, XLSX, or paste a public Google Sheet URL."

\* The upload page is showing and fewer than limit parse calls have been
\* started.
Idle(limit) == page = "/" /\ nextReq < limit

\* UploadPanel.onFiles up to its await: a .csv or .xlsx/.xls file starts a
\* parse, any other file is refused with an alert.
OnFiles(src) ==
  /\ page = "/"
  /\ src.kind \in {"csv", "xlsx", "sql", "other"}
  /\ nextReq' = nextReq + 1
  /\ IF src.kind \in {"csv", "xlsx"}
     THEN /\ pending' = pending \cup {[id |-> nextReq + 1, src |-> src]}
          /\ UNCHANGED alertMsg
     ELSE /\ alertMsg' = IF src.kind = "sql" THEN SqlMessage ELSE UnsupportedMessage
          /\ UNCHANGED pending
  /\ UNCHANGED <<routerVars, builderVars, theme, dataset, uploadVars, helperVars>>

\* The sheet URL input: setUrl(e.target.value).
SetUrl(text) ==
  /\ page = "/"
  /\ url' = text
  /\ UNCHANGED <<pending, nextReq, routerVars, alertMsg, builderVars, theme, dataset,
                 exportUrl, helperVars>>

\* UploadPanel.onUrlSubmit up to parseGoogleSheet's await of the fetch:
\* nothing for an empty url, else the fetch of the rewritten URL starts.
OnUrlSubmit(src) ==
  /\ page = "/"
  /\ url # <<>>
  /\ src.kind = "gsheet"
  /\ exportUrl' = ExportUrlOf(url)
  /\ UNCHANGED url
  /\ nextReq' = nextReq + 1
  /\ pending' = pending \cup {[id |-> nextReq + 1, src |-> src]}
  /\ UNCHANGED <<routerVars, alertMsg, builderVars, theme, dataset, helperVars>>

\* The continuation of onFiles / onUrlSubmit when the parse of call req
\* settles: handleParsed navigates to the builder with the result, a
\* rejection is shown by alert.  The Builder mounts when the upload page was
\* showing (chart starts as suggestChartType's answer) and keeps its state
\* when it is already showing.
Settle(req) ==
  /\ req \in pending
  /\ pending' = pending \ {req}
  /\ LET res == ParseOf(req.src)
     IN IF res.ok
        THEN /\ page' = "/builder"
             /\ loaded' = TRUE
             /\ table' = res.table
             /\ tableFrom' = req
             /\ navCount' = navCount + 1
             /\ IF page = "/builder"
                THEN UNCHANGED builderVars
                ELSE /\ chart' = suggestChartType(res.table.headers, res.table.rows)
                     /\ xField' = Undef /\ yField' = Undef /\ y2Field' = Undef
                     /\ colorVar' = ""
                     /\ customHex' = <<>>
                     /\ opacity' = 35
                     /\ palette' = "neon"
                     /\ perValueColors' = EmptyMap
             /\ UNCHANGED alertMsg
        ELSE /\ alertMsg' = res.error
             /\ UNCHANGED <<routerVars, builderVars>>
  /\ UNCHANGED <<nextReq, theme, uploadVars, helperVars>>
  /\ Rerender

OnBuilder == page = "/builder" /\ loaded

ChartKinds == {"column", "bar", "line", "combo", "pie", "heatmap", "table",
               "funnel", "scatter"}

\* A mutant of SetChart whose funnel render sorts table.rows itself, not
\* a copy of it.
SetChart_SortsRows(k) ==
  /\ OnBuilder
  /\ k \in ChartKinds
  /\ chart' = k
  /\ LET y == KeyAt(extractNumericColumns(table), 0)
         items == [i \in 1..Len(table.rows) |->
                     [label |-> table.rows[i],
                      value |-> IF IsNum(Get(table.rows[i], y))
                                THEN Get(table.rows[i], y) ELSE IntNum(0)]]
         sorted == SortDesc(items)
     IN table' = IF k = "funnel"
                 THEN [table EXCEPT !.rows = [i \in 1..Len(sorted) |-> sorted[i].label]]
                 ELSE table
  /\ UNCHANGED <<pending, nextReq, page, loaded, tableFrom, navCount, alertMsg, theme,
                 uploadVars, helperVars>>
  /\ UNCHANGED <<xField, yField, y2Field, colorVar, customHex, opacity, palette,
                 perValueColors>>
  /\ Rerender

\* A chart type button: setChart(t.value).
SetChart(k) ==
  /\ OnBuilder
  /\ k \in ChartKinds
  /\ chart' = k
  /\ UNCHANGED <<pending, nextReq, routerVars, alertMsg, theme, uploadVars, helperVars>>
  /\ UNCHANGED <<xField, yField, y2Field, colorVar, customHex, opacity, palette,
                 perValueColors>>
  /\ Rerender

\* What a Builder handler leaves alone besides the Builder's own state.
BuilderFrame ==
  UNCHANGED <<pending, nextReq, routerVars, alertMsg, theme, uploadVars, helperVars>>

\* The "Theme" button: setColorVar(undefined); setCustomHex("").
ClickTheme ==
  /\ OnBuilder
  /\ colorVar' = ""
  /\ customHex' = <<>>
  /\ UNCHANGED <<chart, xField, yField, y2Field, opacity, palette, perValueColors>>
  /\ BuilderFrame
  /\ Rerender

\* A neon swatch: setColorVar("--chart-neon-i"); setCustomHex("").
ClickNeon(i) ==
  /\ OnBuilder
  /\ i \in 1..Len(neonVars)
  /\ colorVar' = neonVars[i]
  /\ customHex' = <<>>
  /\ UNCHANGED <<chart, xField, yField, y2Field, opacity, palette, perValueColors>>
  /\ BuilderFrame
  /\ Rerender

\* A mutant of ChangeCustomHex that keeps the theme colour chosen.
ChangeCustomHex_KeepsVar(text) ==
  /\ OnBuilder
  /\ customHex' = text
  /\ UNCHANGED <<chart, xField, yField, y2Field, colorVar, opacity, palette,
                 perValueColors>>
  /\ BuilderFrame
  /\ Rerender

\* The custom colour input: setCustomHex(value); if (value) setColorVar(undefined).
ChangeCustomHex(text) ==
  /\ OnBuilder
  /\ customHex' = text
  /\ colorVar' = IF text # <<>> THEN "" ELSE colorVar
  /\ UNCHANGED <<chart, xField, yField, y2Field, opacity, palette, perValueColors>>
  /\ BuilderFrame
  /\ Rerender

\* The "Clear" button, shown while customHex is not empty: setCustomHex("").
ClearCustomHex ==
  /\ OnBuilder
  /\ customHex # <<>>
  /\ customHex' = <<>>
  /\ UNCHANGED <<chart, xField, yField, y2Field, colorVar, opacity, palette,
                 perValueColors>>
  /\ BuilderFrame
  /\ Rerender

Palettes == {"neon", "colorful", "monochrome"}
\* A palette button: setPalette(p).
SetPalette(pal) ==
  /\ OnBuilder
  /\ pal \in Palettes
  /\ palette' = pal
  /\ UNCHANGED <<chart, xField, yField, y2Field, colorVar, customHex, opacity,
                 perValueColors>>
  /\ BuilderFrame
  /\ Rerender

\* The labels the Builder lists for per-value colours:
\* xSel = xField || (headers.find(string-bearing) ?? headers[0]),
\* rowLabels = rows.map((r, i) => String(r[xSel] ?? `Row ${i + 1}`)),
\* uniqueLabels = Array.from(new Set(rowLabels)).slice(0, 50).
MaxListedLabels == 50
uniqueLabels ==
  LET xSel == OrElse(xField, Coalesce(KeyAt(extractCategoricalColumns(table), 0),
                                      KeyAt(table.headers, 0)))
      rowLabels == [i \in 1..Len(table.rows) |->
                      ToText(Coalesce(Get(table.rows[i], xSel),
                                      Str(RowText \o DigitsOfNat(i))))]
      all == Distinct(rowLabels)
  IN SubSeq(all, 1, IF Len(all) > MaxListedLabels THEN MaxListedLabels ELSE Len(all))

\* setLabelColor(label, hex) from a listed label's inputs: an empty hex
\* deletes the label's key, any other is stored under it.
SetLabelColor(label, hex) ==
  /\ OnBuilder
  /\ label \in Range(uniqueLabels)
  /\ perValueColors' =
       IF hex = <<>>
       THEN [k \in DOMAIN perValueColors \ {label} |-> perValueColors[k]]
       ELSE [k \in DOMAIN perValueColors \cup {label} |->
               IF k = label THEN hex ELSE perValueColors[k]]
  /\ UNCHANGED <<chart, xField, yField, y2Field, colorVar, customHex, opacity, palette>>
  /\ BuilderFrame
  /\ Rerender

\* The field selects of the Builder's first layout: an option is "" (Auto)
\* or a header of the table.  setXField(e.target.value).
FieldOptions == {<<>>} \cup Range(table.headers)

SetXField(v) ==
  /\ OnBuilder
  /\ v \in FieldOptions
  /\ xField' = Str(v)
  /\ UNCHANGED <<chart, yField, y2Field, colorVar, customHex, opacity, palette,
                 perValueColors>>
  /\ BuilderFrame
  /\ Rerender

\* setYField(e.target.value)
SetYField(v) ==
  /\ OnBuilder
  /\ v \in FieldOptions
  /\ yField' = Str(v)
  /\ UNCHANGED <<chart, xField, y2Field, colorVar, customHex, opacity, palette,
                 perValueColors>>
  /\ BuilderFrame
  /\ Rerender

\* setY2Field(e.target.value): the select is shown for the combo chart only.
SetY2Field(v) ==
  /\ OnBuilder
  /\ chart = "combo"
  /\ v \in FieldOptions
  /\ y2Field' = Str(v)
  /\ UNCHANGED <<chart, xField, yField, colorVar, customHex, opacity, palette,
                 perValueColors>>
  /\ BuilderFrame
  /\ Rerender

\* ------------------------------------------------------------- sources
\* The raw inputs the specifications draw from.  A CSV file or a fetched
\* sheet is the grid Papa.parse returns for its text: arrays of strings, a
\* line that is empty skipped.  A workbook is the array sheet_to_json
\* returns: records with the same keys, a cell null where the sheet has none.
SeqsUpTo(S, n) == UNION {[1..k -> S] : k \in 0..n}
NonEmptySeqsUpTo(S, n) == UNION {[1..k -> S] : k \in 1..n}

T(c) == <<c>>
CsvSource(grid) == [kind |-> "csv", data |-> grid, json |-> <<>>, ok |-> TRUE]
SheetSource(grid, resOk) == [kind |-> "gsheet", data |-> grid, json |-> <<>>, ok |-> resOk]
XlsxSource(json) == [kind |-> "xlsx", data |-> <<>>, json |-> json, ok |-> TRUE]
OtherFile(kind) == [kind |-> kind, data |-> <<>>, json |-> <<>>, ok |-> TRUE]

\* The lines of a grid: not the line [""], which skipEmptyLines drops.
Lines(texts, n) ==
  {[i \in 1..Len(l) |-> Str(l[i])] : l \in NonEmptySeqsUpTo(texts, n) \ {<<<<>>>>}}

\* The lines of exactly n cells.
FullLines(texts, n) == {l \in Lines(texts, n) : Len(l) = n}

\* Every text of at most n characters over chars.
AllTexts(chars, n) == SeqsUpTo(chars, n)

TextChars == {" ", ",", ".", "-", "1", "a"}
\* "1,234.5"
SpecExample == <<"1", ",", "2", "3", "4", ".", "5">>
HeaderTexts == {T("a"), T("b"), <<>>}
CellTexts == {<<>>, <<" ", "1", ",">>}

ParseGrids ==
  {<<>>}
  \cup {<<h>> \o rs : h \in Lines(HeaderTexts, MaxCols),
                      rs \in SeqsUpTo(Lines(CellTexts, MaxCols), MaxDataRows)}
  \cup {<<<<Str(T("a"))>>, <<Str(t)>>>> :
          t \in (AllTexts(TextChars, MaxTextLen) \cup {SpecExample}) \ {<<>>}}

XlsxKeys == {<<T("a")>>, <<T("b")>>, <<T("a"), T("b")>>, <<T("b"), T("a")>>}
XlsxCells == {Null, Num((15 * NumScale) \div 10), Str(<<" ", "1", ",">>), Str(T("a"))}
ParseWorkbooks ==
  {<<>>}
  \cup UNION {{[i \in 1..Len(rs) |-> [keys |-> ks, cells |-> rs[i]]] :
                 rs \in NonEmptySeqsUpTo([Range(ks) -> XlsxCells], MaxDataRows)} :
              ks \in XlsxKeys}
  \cup {<<[keys |-> <<T("a")>>, cells |-> [k \in {T("a")} |-> Str(t)]]>> :
          t \in AllTexts(TextChars, MaxTextLen) \cup {SpecExample}}

ParseSources ==
  {CsvSource(g) : g \in ParseGrids}
  \cup {SheetSource(g, TRUE) : g \in ParseGrids}
  \cup {SheetSource(<<>>, FALSE)}
  \cup {XlsxSource(j) : j \in ParseWorkbooks}
  \cup {OtherFile("sql"), OtherFile("other")}

\* ------------------------------------------------------------- SpecParse
\* One upload of any kind of source, parsed and handed to the builder.
\* The sheet URL typed where a specification is not about the URL: "d/edit".
SheetUrl == <<"d">> \o EditText

NextParse ==
  \/ Idle(1) /\ SetUrl(SheetUrl)
  \/ Idle(1) /\ \E src \in ParseSources : OnFiles(src)
  \/ Idle(1) /\ \E src \in ParseSources : OnUrlSubmit(src)
  \/ \E req \in pending : Settle(req)

SpecParse == Init /\ [][NextParse]_vars

\* ------------------------------------------------------------- SpecAdvisor
\* Row counts on both sides of the advisor's thresholds, and the small ones.
MaxSmallRows == 2
AdvisorRowCounts ==
  (0..MaxSmallRows) \cup {PieMaxRows, PieMaxRows + 1, LineMinRows, LineMinRows + 1}
AdvisorHeaders == {<<T("a")>>, <<T("a"), T("b")>>, <<T("a"), T("b"), T("c")>>}
AdvisorCells == {<<>>, T("1"), T("a")}
\* A header line, a first line and a second line repeated to n data rows.
AdvisorGrids ==
  UNION {{<<[i \in 1..Len(h) |-> Str(h[i])]>> \o [k \in 1..n |-> IF k = 1 THEN r1 ELSE r2] :
            r1 \in FullLines(AdvisorCells, Len(h)), r2 \in FullLines(AdvisorCells, Len(h)),
            n \in AdvisorRowCounts} : h \in AdvisorHeaders}
AdvisorSources ==
  {CsvSource(g) : g \in AdvisorGrids} \cup {SheetSource(<<>>, TRUE)}

NextAdvisor ==
  \/ Idle(1) /\ SetUrl(SheetUrl)
  \/ Idle(1) /\ \E src \in AdvisorSources : OnFiles(src)
  \/ Idle(1) /\ \E src \in AdvisorSources : OnUrlSubmit(src)
  \/ \E req \in pending : Settle(req)

SpecAdvisor == Init /\ [][NextAdvisor]_vars

\* ------------------------------------------------------------- typed grids
\* Most data rows of the grids with one kind of cell per column.
MaxRows == 3
\* Most data rows of the grids of the colour specification.
MaxColorRows == 2

Cells(l) == [i \in 1..Len(l) |-> Str(l[i])]
\* The choice of a CSV file whose grid is the header h and at most n data
\* rows drawn from rowChoices.
UploadGrid(h, rowChoices, n) ==
  \E k \in 0..n : \E rs \in [1..k -> rowChoices] : OnFiles(CsvSource(<<Cells(h)>> \o rs))

\* ------------------------------------------------------------- SpecColor
\* A label column (a text, a number or nothing) and a value column; the
\* colour controls of the Builder, under a theme that sets every CSS
\* variable and under one that sets none.
ColorRows == {Cells(<<l, T("1")>>) : l \in {T("p"), T("1"), <<>>}}
Red == <<"#", "f", "f", "0", "0", "0", "0">>
Green == <<"#", "0", "f", "0">>
ColorCharts == {"pie", "funnel"}
\* The neon swatches clicked.
NeonChoices == {1, 3}

InitColor == InitWith({FullTheme, BareTheme})

NextColor ==
  \/ Idle(1) /\ UploadGrid(<<T("l"), T("v")>>, ColorRows, MaxColorRows)
  \/ \E req \in pending : Settle(req)
  \/ \E k \in ColorCharts : SetChart(k)
  \/ ClickTheme
  \/ \E i \in NeonChoices : ClickNeon(i)
  \/ \E text \in {Green, <<>>} : ChangeCustomHex(text)
  \/ ClearCustomHex
  \/ \E pal \in Palettes : SetPalette(pal)
  \/ \E label \in Range(uniqueLabels), hex \in {Red, <<>>} : SetLabelColor(label, hex)

SpecColor == InitColor /\ [][NextColor]_vars

\* ------------------------------------------------------------- SpecHeatmap
\* Two category columns and a value column, so that rows can share a pair of
\* categories and differ in value.
HeatRows ==
  {Cells(<<c, d, v>>) : c \in {T("p"), T("q")}, d \in {T("p"), T("q")},
                        v \in {T("1"), T("2"), <<>>}}

NextHeatmap ==
  \/ Idle(1) /\ UploadGrid(<<T("c"), T("d"), T("v")>>, HeatRows, MaxRows)
  \/ \E req \in pending : Settle(req)
  \/ SetChart("heatmap")

SpecHeatmap == Init /\ [][NextHeatmap]_vars

\* ------------------------------------------------------------- SpecScatter
\* Three columns, each holding its own number, a text or (the middle one)
\* nothing; the middle header is named or empty.
ScatterCells ==
  {Cells(<<a, b, c>>) : a \in {T("1"), T("x")}, b \in {T("2"), <<>>, T("x")},
                        c \in {T("3"), T("x")}}
ScatterHeaders == {<<T("a"), T("b"), T("c")>>, <<T("a"), <<>>, T("c")>>}

NextScatter ==
  \/ Idle(1) /\ \E h \in ScatterHeaders : UploadGrid(h, ScatterCells, MaxRows)
  \/ \E req \in pending : Settle(req)
  \/ SetChart("scatter")

SpecScatter == Init /\ [][NextScatter]_vars

\* ------------------------------------------------------------- SpecSeries
\* A label column and a value column whose cells are negative, zero or no
\* number; the charts with one value per row.
SeriesRows ==
  {Cells(<<l, v>>) : l \in {T("p"), <<>>},
                     v \in {<<"-", "2">>, <<"-", "1">>, T("0"), T("a")}}
SeriesCharts == {"column", "bar", "line", "pie", "combo", "funnel"}

NextSeries ==
  \/ Idle(1) /\ UploadGrid(<<T("l"), T("v")>>, SeriesRows, MaxRows)
  \/ \E req \in pending : Settle(req)
  \/ \E k \in SeriesCharts : SetChart(k)

SpecSeries == Init /\ [][NextSeries]_vars

\* ------------------------------------------------------------- SpecUpload
\* Several uploads started from the upload page before any has settled.
MaxUploads == 3
UploadSources ==
  {CsvSource(<<Cells(<<T("a")>>), Cells(<<T("1")>>)>>),
   SheetSource(<<Cells(<<T("b")>>), Cells(<<T("2")>>)>>, TRUE),
   SheetSource(<<>>, FALSE),
   XlsxSource(<<[keys |-> <<T("c")>>, cells |-> [k \in {T("c")} |-> IntNum(3)]]>>),
   OtherFile("sql"), OtherFile("other")}

NextUpload ==
  \/ Idle(MaxUploads) /\ SetUrl(SheetUrl)
  \/ Idle(MaxUploads) /\ \E src \in UploadSources : OnFiles(src)
  \/ Idle(MaxUploads) /\ \E src \in UploadSources : OnUrlSubmit(src)
  \/ \E req \in pending : Settle(req)

SpecUpload == Init /\ [][NextUpload]_vars

\* ------------------------------------------------------------- claims
\* C1: for every table, the chart the Builder starts with is the first match
\* of the advisor's list: scatter for at least PieMaxHeaders numeric-bearing
\* columns whatever the row count, else column for exactly one
\* numeric-bearing and at least one string-bearing column, else pie for at
\* most PieMaxHeaders headers and at most PieMaxRows rows, else line for more
\* than LineMinRows rows, else table.
C1_SuggestPrecedence ==
  loaded =>
    LET nHeaders == Len(table.headers)
        nRows == Len(table.rows)
        Bearing(tag) == {i \in 1..nHeaders :
                           \E k \in 1..nRows : table.rows[k][table.headers[i]].t = tag}
        nNum == Cardinality(Bearing("num"))
        nStr == Cardinality(Bearing("str"))
        isScatter == nNum >= 2
        isColumn == ~isScatter /\ nNum = 1 /\ nStr >= 1
        isPie == ~isScatter /\ ~isColumn /\ nHeaders <= PieMaxHeaders /\ nRows <= PieMaxRows
        isLine == ~isScatter /\ ~isColumn /\ ~isPie /\ nRows > LineMinRows
    IN /\ isScatter => chart = "scatter"
       /\ isColumn => chart = "column"
       /\ isPie => chart = "pie"
       /\ isLine => chart = "line"
       /\ (~isScatter /\ ~isColumn /\ ~isPie /\ ~isLine) => chart = "table"

\* C1 witness: two numeric-bearing columns and more rows than the line
\* threshold, and the Builder starts with scatter.
C1_Witness ==
  /\ loaded
  /\ Len(table.rows) > LineMinRows
  /\ Len(extractNumericColumns(table)) >= 2
  /\ chart = "scatter"

\* C6: every parsed table has no header twice, and the keys of every row are
\* exactly the headers.
C6_UniqueHeadersExactKeys ==
  loaded =>
    /\ \A i, j \in 1..Len(table.headers) : i # j => table.headers[i] # table.headers[j]
    /\ \A k \in 1..Len(table.rows) : DOMAIN table.rows[k] = Range(table.headers)

\* C7: once a newer upload's table has been handed to the builder, the
\* completion of an older call neither replaces the table nor navigates
\* again.
C7_StaleResultDiscarded ==
  [][\A req \in pending :
       (loaded /\ req.id < tableFrom.id /\ pending' = pending \ {req})
         => (table' = table /\ tableFrom' = tableFrom /\ navCount' = navCount)]_vars

\* C8: every cell of every parsed table is its raw cell under the one rule
\* (null for nothing or blank text; the number for a number or for a text
\* that parses after trimming and removing commas; the trimmed text
\* otherwise), whatever kind of source it came from, and coercing it again
\* returns it unchanged.
C8_CoercionUniformIdempotent ==
  loaded =>
    LET src == tableFrom.src
        Raw(k, i) == IF src.kind = "xlsx"
                     THEN src.json[k].cells[table.headers[i]]
                     ELSE At(src.data[k + 1], i - 1)
        Rule(raw, c) ==
          IF raw.t \in {"null", "undef"} THEN c = Null
          ELSE IF raw.t = "num" THEN c = raw
          ELSE LET t == Trim(raw.s)
                   n == NumberOfText(StripCommas(t))
               IN IF t = <<>> THEN c = Null
                  ELSE IF n.t = "num" THEN c = n
                  ELSE c = Str(t)
    IN \A k \in 1..Len(table.rows) : \A i \in 1..Len(table.headers) :
         (\A j \in 1..Len(table.headers) : table.headers[j] = table.headers[i] => j <= i)
           => LET c == table.rows[k][table.headers[i]]
              IN /\ Rule(Raw(k, i), c)
                 /\ toNumberIfPossible(c) = c
                 /\ Raw(k, i) = Str(SpecExample) => c = Num((12345 * NumScale) \div 10)

\* C8 witness: the text "1,234.5" in a workbook cell, parsed to 1234.5.
C8_Witness ==
  /\ loaded
  /\ tableFrom.src.kind = "xlsx"
  /\ Len(table.rows) = 1
  /\ tableFrom.src.json[1].cells[T("a")] = Str(SpecExample)
  /\ table.rows[1][T("a")] = Num((12345 * NumScale) \div 10)

\* C2: in the per-label colours of a rendered pie, bar, column or funnel
\* chart, a label pinned in perValueColors has its pinned colour whatever
\* customHex, colorVar, palette and index are; an unpinned label has the
\* customHex colour when customHex is set, else the colorVar colour when
\* colorVar is set, and only otherwise the palette's colour for its index.
C2_ColorFirstMatchWins ==
  (OnBuilder /\ dataset.kind \in {"pie", "bar", "funnel"}) =>
    \A i \in 1..Len(dataset.labels) :
      LET key == ToText(dataset.labels[i])
          got == dataset.backgroundColor[i]
          pinned == key \in DOMAIN perValueColors
          slot == IF palette = "colorful" THEN colorfulVars[((i - 1) % 6) + 1]
                  ELSE IF palette = "monochrome" THEN "--primary"
                  ELSE neonVars[((i - 1) % 5) + 1]
          alpha == IF palette = "monochrome" THEN (60 + ((i - 1) % 6) * 7) * 100
                   ELSE AlphaOne
      IN /\ pinned => got = hexToRgba(perValueColors[key], AlphaOne)
         /\ (~pinned /\ customHex # <<>>) => got = hexToRgba(customHex, AlphaOne)
         /\ (~pinned /\ customHex = <<>> /\ colorVar # "")
              => got = hslVar(theme, colorVar, AlphaOne)
         /\ (~pinned /\ customHex = <<>> /\ colorVar = "")
              => got = hslVar(theme, slot, alpha)

\* C2 witness: a pie whose second label is pinned red while customHex is
\* green and the palette is colorful; the label's colour is the red one and
\* the first, unpinned label's colour the green one.
C2_Witness ==
  /\ OnBuilder
  /\ dataset.kind = "pie"
  /\ Len(dataset.labels) = 2
  /\ ToText(dataset.labels[2]) \in DOMAIN perValueColors
  /\ ToText(dataset.labels[1]) \notin DOMAIN perValueColors
  /\ customHex = Green
  /\ palette = "colorful"
  /\ dataset.backgroundColor[2] = Rgba(255, 0, 0, AlphaOne)
  /\ dataset.backgroundColor[1] = Rgba(0, 255, 0, AlphaOne)

\* C3: every cell of a rendered heatmap holds the value of the earliest row
\* of the table that carries the cell's pair of categories (0 when that
\* value is no number or no row carries the pair); later rows with the same
\* pair do not change it.
C3_HeatmapFirstMatch ==
  (OnBuilder /\ dataset.kind = "heatmap" /\ Len(extractCategoricalColumns(table)) >= 2) =>
    LET xCol == extractCategoricalColumns(table)[1]
        yCol == extractCategoricalColumns(table)[2]
        vCol == KeyAt(extractNumericColumns(table), 0)
    IN \A c \in 1..Len(dataset.data) :
         LET cell == dataset.data[c]
             xc == dataset.labels[cell.x + 1]
             yc == dataset.yCats[cell.y + 1]
             same == {k \in 1..Len(table.rows) :
                        table.rows[k][xCol] = xc /\ table.rows[k][yCol] = yc}
         IN IF same = {} THEN cell.v = IntNum(0)
            ELSE LET first == CHOOSE k \in same : \A j \in same : k <= j
                     v == Get(table.rows[first], vCol)
                 IN cell.v = IF IsNum(v) THEN v ELSE IntNum(0)

\* C3 witness: two rows with the same pair of categories and different
\* numbers, the later one the greater; the cell of the pair holds the
\* earlier row's number.
C3_Witness ==
  /\ OnBuilder
  /\ dataset.kind = "heatmap"
  /\ Len(table.rows) >= 2
  /\ table.rows[1][T("c")] = table.rows[2][T("c")]
  /\ table.rows[1][T("d")] = table.rows[2][T("d")]
  /\ table.rows[1][T("v")] = IntNum(1)
  /\ table.rows[2][T("v")] = IntNum(2)
  /\ dataset.data[1].v = IntNum(1)

\* C4: the bars of a rendered funnel are the rows' (label, value) items in
\* descending order of value: no value is less than the one after it, and
\* for every value the bars with that value are the rows with that value in
\* their order in the table (so the bars are a permutation of the rows).
C4_FunnelStableDescending ==
  (OnBuilder /\ dataset.kind = "funnel") =>
    LET n == Len(table.rows)
        cat == extractCategoricalColumns(table)
        num == extractNumericColumns(table)
        x == IF cat # <<>> THEN cat[1] ELSE table.headers[1]
        y == IF num # <<>> THEN num[1] ELSE table.headers[2]
        item(k) == [label |-> IF table.rows[k][x] = Null
                              THEN Str(StepText \o DigitsOfNat(k))
                              ELSE table.rows[k][x],
                    value |-> IF IsNum(table.rows[k][y])
                              THEN table.rows[k][y] ELSE IntNum(0)]
        items == [k \in 1..n |-> item(k)]
        bars == [i \in 1..Len(dataset.data) |->
                   [label |-> dataset.labels[i], value |-> dataset.data[i]]]
    IN /\ Len(bars) = n
       /\ \A i \in 1..(n - 1) : bars[i].value.n >= bars[i + 1].value.n
       /\ \A k \in 1..n :
            LET Same(it) == it.value = items[k].value
            IN SelectSeq(bars, Same) = SelectSeq(items, Same)

\* C4 witness: three rows with the values 0, -1, 0 and different labels; the
\* funnel shows the two rows of value 0 first, in their order in the table.
C4_Witness ==
  /\ OnBuilder
  /\ dataset.kind = "funnel"
  /\ Len(table.rows) = 3
  /\ table.rows[1] = [h \in {T("l"), T("v")} |-> IF h = T("l") THEN Str(T("p")) ELSE IntNum(0)]
  /\ table.rows[2] = [h \in {T("l"), T("v")} |-> IF h = T("l") THEN Str(T("p")) ELSE IntNum(0 - 1)]
  /\ table.rows[3] = [h \in {T("l"), T("v")} |-> IF h = T("l") THEN Null ELSE IntNum(0)]
  /\ dataset.labels = <<Str(T("p")), Str(StepText \o T("3")), table.rows[2][T("l")]>>

\* C5: the points of a rendered scatter chart are, in row order, the pairs
\* (row[n0], row[n1]) of the rows in which both cells are numbers, n0 the
\* first numeric-bearing column and n1 the second, or n0 when there is one
\* only; the other rows give no point.
C5_ScatterPoints ==
  (OnBuilder /\ dataset.kind = "scatter") =>
    LET numIdx == {i \in 1..Len(table.headers) :
                     \E k \in 1..Len(table.rows) : IsNum(table.rows[k][table.headers[i]])}
        i0 == CHOOSE i \in numIdx : \A j \in numIdx : i <= j
        rest == numIdx \ {i0}
        n0 == table.headers[i0]
        n1 == IF rest = {} THEN n0
              ELSE table.headers[CHOOSE i \in rest : \A j \in rest : i <= j]
        keep == {k \in 1..Len(table.rows) :
                   IsNum(table.rows[k][n0]) /\ IsNum(table.rows[k][n1])}
        Nth(i) == CHOOSE k \in keep : Cardinality({j \in keep : j < k}) = i - 1
    IN /\ Len(dataset.data) = Cardinality(keep)
       /\ \A i \in 1..Len(dataset.data) :
            dataset.data[i] = [x |-> table.rows[Nth(i)][n0], y |-> table.rows[Nth(i)][n1]]

\* C9 as stated: in a rendered column, bar, line, pie, combo or funnel chart
\* the value series has one entry per row, and the row of a y cell that is
\* no number contributes "not a number" (at its own position where the
\* series is in row order).
C9_NotANumberForEveryKind ==
  (OnBuilder /\ dataset.kind \in {"bar", "line", "pie", "combo", "funnel"}) =>
    LET n == Len(table.rows)
        num == extractNumericColumns(table)
        y == IF num # <<>> THEN num[1] ELSE table.headers[2]
        series == IF dataset.kind = "combo" THEN dataset.datasets[1].data ELSE dataset.data
    IN /\ Len(series) = n
       /\ Cardinality({i \in 1..Len(series) : series[i] = NaN})
            = Cardinality({k \in 1..n : ~IsNum(table.rows[k][y])})
       /\ dataset.kind # "funnel" =>
            \A k \in 1..n :
              series[k] = IF IsNum(table.rows[k][y]) THEN table.rows[k][y] ELSE NaN

\* C9 amended: in a rendered column, bar, line, pie or combo chart the value
\* series has one entry per row, the row's number or "not a number" at the
\* row's position; in a rendered funnel the series has one entry per row
\* too, but the row of a y cell that is no number contributes 0.
C9_ValuePerRow ==
  (OnBuilder /\ dataset.kind \in {"bar", "line", "pie", "combo", "funnel"}) =>
    LET n == Len(table.rows)
        num == extractNumericColumns(table)
        y == IF num # <<>> THEN num[1] ELSE table.headers[2]
        series == IF dataset.kind = "combo" THEN dataset.datasets[1].data ELSE dataset.data
        zeroed == [k \in 1..n |-> IF IsNum(table.rows[k][y]) THEN table.rows[k][y]
                                  ELSE IntNum(0)]
    IN /\ Len(series) = n
       /\ dataset.kind # "funnel" =>
            \A k \in 1..n :
              series[k] = IF IsNum(table.rows[k][y]) THEN table.rows[k][y] ELSE NaN
       /\ dataset.kind = "funnel" =>
            \A k \in 1..n :
              Cardinality({i \in 1..n : series[i] = zeroed[k]})
                = Cardinality({j \in 1..n : zeroed[j] = zeroed[k]})

\* C9 witness: a line chart of three rows whose second y cell is a text; the
\* series holds "not a number" between the two numbers.
C9_Witness ==
  /\ OnBuilder
  /\ dataset.kind = "line"
  /\ Len(table.rows) = 3
  /\ table.rows[2][T("v")] = Str(T("a"))
  /\ dataset.data = <<IntNum(0), NaN, IntNum(0 - 2)>>

\* C10: every bar of a rendered funnel is at least FunnelMinThickness and at
\* most FunnelMaxThickness thick.
C10_ThicknessBounded ==
  (OnBuilder /\ dataset.kind = "funnel") =>
    \A i \in 1..Len(dataset.barThickness) :
      LET th == dataset.barThickness[i]
      IN /\ FunnelMinThickness * th.den <= th.num
         /\ th.num <= FunnelMaxThickness * th.den

\* C11: in a rendered heatmap the colour of every cell has the intensity
\* value / maximum value, kept within [0.05, 1]: a cell of value 0 has the
\* intensity 0.05, and cells of different values below the maximum differ.
C11_HeatmapIntensity ==
  (OnBuilder /\ dataset.kind = "heatmap") =>
    LET cells == dataset.data
        top == IF cells = <<>> THEN 0
               ELSE (CHOOSE c \in Range(cells) : \A d \in Range(cells) : d.v.n <= c.v.n).v.n
    IN \A i \in 1..Len(cells) :
         dataset.backgroundColor.a =
           IF top <= 0 THEN AlphaOne \div 20
           ELSE Clamp(AlphaOne \div 20, (cells[i].v.n * AlphaOne) \div top, AlphaOne)

\* ------------------------------------------------------------- SpecFields
\* Three columns, each holding its own number or a text, the first or the
\* second header named or empty; the field selects and the charts that read the fields.
MaxFieldRows == 1
FieldHeaders ==
  {<<T("a"), T("b"), T("c")>>, <<<<>>, T("b"), T("c")>>, <<T("a"), <<>>, T("c")>>}
FieldRows ==
  {Cells(<<a, b, c>>) : a \in {T("1"), T("x")}, b \in {T("2"), T("y")},
                        c \in {T("3"), T("z")}}
FieldCharts == {"combo", "heatmap", "pie"}

NextFields ==
  \/ Idle(1) /\ \E h \in FieldHeaders : UploadGrid(h, FieldRows, MaxFieldRows)
  \/ \E req \in pending : Settle(req)
  \/ \E k \in FieldCharts : SetChart(k)
  \/ \E v \in FieldOptions : SetXField(v)
  \/ \E v \in FieldOptions : SetYField(v)
  \/ \E v \in FieldOptions : SetY2Field(v)

SpecFields == Init /\ [][NextFields]_vars

\* C12: in a rendered pie, column or combo chart the labels are read from x
\* and the series from y (combo: the line series from y2), where a selected
\* field is the selection and an unset one ("" or undefined) is: for x the
\* first string-bearing column, or the first header when there is none; for
\* y the first numeric-bearing column, or the second header when there is
\* none; for y2 the second numeric-bearing column.
C12_FieldDefaults ==
  (OnBuilder /\ dataset.kind \in {"pie", "bar", "combo"}) =>
    LET n == Len(table.headers)
        Bearing(tag) == {i \in 1..n :
                           \E k \in 1..Len(table.rows) : table.rows[k][table.headers[i]].t = tag}
        Least(S) == CHOOSE i \in S : \A j \in S : i <= j
        HeaderAt(i) == IF i \in 1..n THEN Str(table.headers[i]) ELSE Undef
        IsSet(f) == f.t = "str" /\ f.s # <<>>
        str == Bearing("str")
        num == Bearing("num")
        x == IF IsSet(xField) THEN xField
             ELSE IF str # {} THEN HeaderAt(Least(str)) ELSE HeaderAt(1)
        y == IF IsSet(yField) THEN yField
             ELSE IF num # {} THEN HeaderAt(Least(num)) ELSE HeaderAt(2)
        y2 == IF IsSet(y2Field) THEN y2Field
              ELSE IF Cardinality(num) >= 2 THEN HeaderAt(Least(num \ {Least(num)}))
              ELSE Undef
        Cell(k, f) == IF f.t = "str" /\ f.s \in DOMAIN table.rows[k]
                      THEN table.rows[k][f.s] ELSE Undef
    IN /\ \A k \in 1..Len(table.rows) :
            dataset.labels[k] = Coalesce(Cell(k, x), Str(RowText \o DigitsOfNat(k)))
       /\ dataset.kind \in {"pie", "bar"} => dataset.label = y
       /\ dataset.kind = "combo" =>
            /\ dataset.datasets[1].label = y
            /\ y2 = Undef => Len(dataset.datasets) = 1
            /\ y2 # Undef => (Len(dataset.datasets) = 2 /\ dataset.datasets[2].label = y2)

\* C13: a rendered combo chart holds a bar series over y and, exactly when
\* y2 resolves (a selected y2, or a second numeric-bearing column), a line
\* series over y2 with one value per row under the same labels; when y2
\* does not resolve it holds the bar series alone.
C13_ComboSeries ==
  (OnBuilder /\ dataset.kind = "combo") =>
    LET n == Len(table.rows)
        num == {i \in 1..Len(table.headers) :
                  \E k \in 1..n : IsNum(table.rows[k][table.headers[i]])}
        second == CHOOSE i \in num : Cardinality({j \in num : j < i}) = 1
        y == OrElse(OrElse(yField, KeyAt(extractNumericColumns(table), 0)),
                    KeyAt(table.headers, 1))
        y2 == IF y2Field.t = "str" /\ y2Field.s # <<>> THEN y2Field
              ELSE IF Cardinality(num) >= 2 THEN Str(table.headers[second])
              ELSE Undef
        Value(k, f) == IF IsNum(Get(table.rows[k], f)) THEN Get(table.rows[k], f) ELSE NaN
        series == dataset.datasets
    IN /\ Len(dataset.labels) = n
       /\ series[1].type = "bar"
       /\ series[1].data = [k \in 1..n |-> Value(k, y)]
       /\ y2 = Undef => Len(series) = 1
       /\ y2 # Undef =>
            /\ Len(series) = 2
            /\ series[2].type = "line"
            /\ series[2].data = [k \in 1..n |-> Value(k, y2)]

\* ------------------------------------------------------------- SpecShapes
\* Tables of every shape the parsers return: no header at all (an empty
\* sheet or workbook), headers without rows, one column, two columns, cells
\* that are null, numbers or texts; every chart kind of the Builder.
MaxShapeRows == 2
ShapeHeaders == {<<T("a")>>, <<T("a"), T("b")>>}
ShapeCells == {<<>>, T("1"), T("p")}
ShapeRows(h) == {Cells(l) : l \in [1..Len(h) -> ShapeCells]} \ {<<Str(<<>>)>>}
EmptySources == {SheetSource(<<>>, TRUE), XlsxSource(<<>>)}
MapperKinds == ChartKinds \ {"table"}

NextShapes ==
  \/ Idle(1) /\ SetUrl(SheetUrl)
  \/ Idle(1) /\ \E h \in ShapeHeaders : UploadGrid(h, ShapeRows(h), MaxShapeRows)
  \/ Idle(1) /\ OnFiles(XlsxSource(<<>>))
  \/ Idle(1) /\ OnUrlSubmit(SheetSource(<<>>, TRUE))
  \/ \E req \in pending : Settle(req)
  \/ \E k \in ChartKinds : SetChart(k)

SpecShapes == Init /\ [][NextShapes]_vars

C15_HeatmapGridComplete ==
  (OnBuilder /\ dataset.kind = "heatmap") =>
    LET n == Len(table.rows)
        Bearing(type) == {i \in 1..Len(table.headers) :
                            \E k \in 1..n : table.rows[k][table.headers[i]].t = type}
        str == Bearing("str")
        num == Bearing("num")
        Nth(S, j) == CHOOSE i \in S : Cardinality({l \in S : l < i}) = j - 1
        Column(i) == [k \in 1..n |-> table.rows[k][table.headers[i]]]
        x == OrElse(xField, KeyAt(table.headers, 0))
        y == IF yField.t = "str" /\ yField.s # <<>> THEN yField
             ELSE IF num # {} THEN Str(table.headers[Nth(num, 1)])
             ELSE KeyAt(table.headers, 1)
        xCats == IF str # {} THEN Distinct(Column(Nth(str, 1)))
                 ELSE [k \in 1..n |->
                         Coalesce(Get(table.rows[k], x), Str(RowText \o DigitsOfNat(k)))]
        yCats == IF Cardinality(str) >= 2 THEN Distinct(Column(Nth(str, 2)))
                 ELSE <<Str(ValueText)>>
        Matches(xi, yi) ==
          {k \in 1..n :
             /\ str # {} /\ table.rows[k][table.headers[Nth(str, 1)]] = xCats[xi]
             /\ Cardinality(str) >= 2 =>
                  table.rows[k][table.headers[Nth(str, 2)]] = yCats[yi]}
        First(S) == CHOOSE k \in S : \A j \in S : k <= j
        cells == dataset.data
    IN /\ dataset.labels = xCats
       /\ dataset.yCats = yCats
       /\ Len(cells) = Len(xCats) * Len(yCats)
       /\ \A xi \in 1..Len(xCats), yi \in 1..Len(yCats) :
            /\ Cardinality({c \in 1..Len(cells) :
                              cells[c].x = xi - 1 /\ cells[c].y = yi - 1}) = 1
            /\ \A c \in 1..Len(cells) :
                 (cells[c].x = xi - 1 /\ cells[c].y = yi - 1) =>
                    /\ Matches(xi, yi) = {} => cells[c].v = IntNum(0)
                    /\ (/\ Matches(xi, yi) # {}
                        /\ IsNum(Get(table.rows[First(Matches(xi, yi))], y))) =>
                         cells[c].v = Get(table.rows[First(Matches(xi, yi))], y)

\* C17: the chart the advisor suggests, with which the Builder starts, is
\* one of scatter, column, pie, line and table for every table; bar, combo,
\* heatmap and funnel are never suggested.
C17_SuggestedKinds ==
  (loaded /\ navCount = 1) => chart \in {"scatter", "column", "pie", "line", "table"}

\* C17 witness: a table of more than LineMinRows rows without a number
\* makes the Builder start with line.
C17_Witness ==
  /\ loaded
  /\ Len(table.rows) > LineMinRows
  /\ extractNumericColumns(table) = <<>>
  /\ chart = "line"

\* ------------------------------------------------------------- SpecMono
\* A table of up to MaxMonoRows rows, more than the six steps of the
\* monochrome scale, under the three palettes and the colour controls.
MaxMonoRows == 7
MonoRows == {Cells(<<T("p"), T("1")>>)}
MonoCharts == {"pie", "column", "funnel"}

NextMono ==
  \/ Idle(1) /\ UploadGrid(<<T("l"), T("v")>>, MonoRows, MaxMonoRows)
  \/ \E req \in pending : Settle(req)
  \/ \E k \in MonoCharts : SetChart(k)
  \/ \E pal \in Palettes : SetPalette(pal)
  \/ ClickTheme
  \/ ClickNeon(1)
  \/ \E text \in {Green, <<>>} : ChangeCustomHex(text)
  \/ \E label \in Range(uniqueLabels), hex \in {Red, <<>>} : SetLabelColor(label, hex)

SpecMono == InitColor /\ [][NextMono]_vars

\* The entries of the chart on screen that the monochrome palette colours:
\* no colour pinned to the label, no custom colour, no theme colour chosen.
MonoEntries ==
  IF /\ OnBuilder /\ dataset.kind \in {"pie", "bar", "funnel"}
     /\ palette = "monochrome" /\ customHex = <<>> /\ colorVar = ""
  THEN {i \in 1..Len(dataset.labels) :
          ToText(dataset.labels[i]) \notin DOMAIN perValueColors}
  ELSE {}

\* C18 as stated: with palette monochrome and no pinned, custom or theme
\* colour, every entry has the base hue --primary, its alpha is the caller's
\* alpha 1 times a factor that is the same for equal index mod 6, and the
\* factor alternates between a lighter and a darker step from one index to
\* the next.
C18_MonochromeAlternates ==
  theme = FullTheme =>
    LET alpha(i) == dataset.backgroundColor[i].a
    IN /\ \A i \in MonoEntries : dataset.backgroundColor[i].v = theme["--primary"]
       /\ \A i, j \in MonoEntries : (i % 6 = j % 6) => alpha(i) = alpha(j)
       /\ \A i \in MonoEntries :
            (i + 1 \in MonoEntries /\ i + 2 \in MonoEntries) =>
               (alpha(i) < alpha(i + 1)) # (alpha(i + 1) < alpha(i + 2))

\* C18, amended: with palette monochrome and no pinned, custom or theme
\* colour, the entry of index i (from 0) has the base hue --primary and the
\* alpha 1 x (0.60 + 0.07 x (i mod 6)): a scale that rises over six
\* consecutive indices and starts again at the seventh.  Under a theme that
\* does not set --primary every entry is the fallback colour, without alpha.
C18_MonochromeScale ==
  \A i \in MonoEntries :
    dataset.backgroundColor[i] =
      IF theme["--primary"] = "" THEN Literal(DefaultAccent)
      ELSE Hsl(theme["--primary"], (AlphaOne * (60 + 7 * ((i - 1) % 6))) \div 100)

\* C18 witness: seven monochrome entries; the sixth has the alpha 0.95 and
\* the seventh the alpha 0.60 of the first.
C18_Witness ==
  /\ theme = FullTheme
  /\ 7 \in MonoEntries
  /\ dataset.kind = "pie"
  /\ dataset.backgroundColor[6].a = 95 * 100
  /\ dataset.backgroundColor[7].a = 60 * 100
  /\ dataset.backgroundColor[1].a = 60 * 100

\* C19: a rendered column or bar chart has one series over y and one label
\* per row in row order, the row's x cell or 'Row N' (N the row's position
\* from 1) when that cell is null; what bar shows is what column shows for
\* the same table, labels, values and colours, and only the axis the bars
\* run along differs.
C19_ColumnBarPerRow ==
  (OnBuilder /\ chart \in {"column", "bar"}) =>
    LET n == Len(table.rows)
        Bearing(type) == {i \in 1..Len(table.headers) :
                            \E k \in 1..n : table.rows[k][table.headers[i]].t = type}
        First(S) == CHOOSE i \in S : \A j \in S : i <= j
        x == IF Bearing("str") # {} THEN table.headers[First(Bearing("str"))]
             ELSE table.headers[1]
        y == IF Bearing("num") # {} THEN table.headers[First(Bearing("num"))]
             ELSE table.headers[2]
        labels == [k \in 1..n |-> IF table.rows[k][x] = Null
                                  THEN Str(RowText \o DigitsOfNat(k))
                                  ELSE table.rows[k][x]]
        values == [k \in 1..n |-> IF IsNum(table.rows[k][y]) THEN table.rows[k][y]
                                  ELSE NaN]
        colors == [k \in 1..n |-> Hsl(theme[neonVars[((k - 1) % 5) + 1]], AlphaOne)]
    IN dataset = [kind |-> "bar",
                  indexAxis |-> IF chart = "bar" THEN "y" ELSE "x",
                  labels |-> labels, label |-> Str(y), data |-> values,
                  backgroundColor |-> colors, borderColor |-> colors]

\* C19 witness: a bar chart of two rows whose second x cell is null carries
\* the text of the first and 'Row 2', along the other axis.
C19_Witness ==
  /\ OnBuilder
  /\ chart = "bar"
  /\ Len(table.rows) = 2
  /\ table.rows[1][T("l")] = Str(T("p"))
  /\ table.rows[2][T("l")] = Null
  /\ dataset.labels = <<Str(T("p")), Str(RowText \o T("2"))>>
  /\ dataset.indexAxis = "y"

\* C20: every header of a table parsed from CSV text (a file or a sheet) is
\* non-empty and is a key of every row; a header the first row leaves empty
\* is named col_<index> after its position.
C20_HeadersNonEmpty ==
  (loaded /\ tableFrom.src.kind \in {"csv", "gsheet"}) =>
    \A i \in 1..Len(table.headers) :
      /\ table.headers[i] # <<>>
      /\ \A k \in 1..Len(table.rows) : table.headers[i] \in DOMAIN table.rows[k]
      /\ Head(tableFrom.src.data)[i] = Str(<<>>) =>
           table.headers[i] = COL \o <<"_">> \o DigitsOfNat(i - 1)

\* C21: the parse of a source without data rows (no text at all, or a
\* header line alone; an empty workbook; an empty fetched sheet) succeeds
\* for each kind of source and hands a table of zero rows to the builder.
C21_NoDataRowsParsed ==
  [][\A req \in pending :
       (/\ pending' = pending \ {req}
        /\ \/ req.src.kind = "csv" /\ Len(req.src.data) <= 1
           \/ req.src.kind = "xlsx" /\ req.src.json = <<>>
           \/ req.src.kind = "gsheet" /\ req.src.ok /\ Len(req.src.data) <= 1)
         => (loaded' /\ tableFrom' = req /\ table'.rows = <<>>)]_vars

\* C22: when the response for a sheet URL is not successful, the call
\* ends with the alert that the sheet must be public, and the route, the
\* table of the session and the count of navigations stay as they were.
C22_FetchFailureNoNavigation ==
  [][\A req \in pending :
       (pending' = pending \ {req} /\ req.src.kind = "gsheet" /\ ~req.src.ok)
         => (alertMsg' = FetchFailedMessage /\ UNCHANGED routerVars)]_vars

\* C22 witness: the one call started was a sheet whose fetch failed; the
\* upload page still shows, with the alert and without a table.
C22_Witness ==
  /\ nextReq = 1
  /\ pending = {}
  /\ alertMsg = FetchFailedMessage
  /\ page = "/"
  /\ ~loaded
  /\ table = EmptyTable

\* ------------------------------------------------------------- SpecUrl
\* Sheet URLs typed into the empty input as up to MaxUrlParts parts: a
\* stand-in for the document address, "/edit", the marks of a query, "gid=",
\* a digit, "export", "format=csv" and a blank; each is submitted once.
MaxUrlParts == 4
UrlParts == {<<"d">>, EditText, <<"?">>, <<"&">>, GidText, <<"7">>,
             <<"e", "x", "p", "o", "r", "t">>, FormatCsvText, <<" ">>}
RECURSIVE Flatten(_)
Flatten(parts) == IF parts = <<>> THEN <<>> ELSE Head(parts) \o Flatten(Tail(parts))

NextUrl ==
  \/ Idle(1) /\ url = <<>> /\ \E k \in 1..MaxUrlParts :
                                \E parts \in [1..k -> UrlParts] : SetUrl(Flatten(parts))
  \/ Idle(1) /\ OnUrlSubmit(SheetSource(<<>>, FALSE))
  \/ \E req \in pending : Settle(req)

SpecUrl == Init /\ [][NextUrl]_vars

\* What claim C23 says of the URL fetched for the URL typed, rewriting
\* again left aside: with "/edit", the text before the first "/edit" and
\* "/export?format=csv&gid=" and the digits after a "gid=" of the typed URL
\* ("0" without one); without "/edit" and without "export?format=csv", the
\* typed URL and "?format=csv" or "&format=csv"; the typed URL otherwise.
RewrittenAsClaimed(given, fetched) ==
  LET typed == Trim(given)
      Occurs(pat, i) == i + Len(pat) - 1 <= Len(typed)
                        /\ SubSeq(typed, i, i + Len(pat) - 1) = pat
      edits == {i \in 1..Len(typed) : Occurs(EditText, i)}
      gids == {i \in 1..Len(typed) :
                 Occurs(GidText, i) /\ i + 4 <= Len(typed) /\ typed[i + 4] \in DigitChars}
      Min(S) == CHOOSE i \in S : \A j \in S : i <= j
      id == IF gids = {} THEN <<"0">> ELSE DigitRun(typed, Min(gids) + 4)
      exports == {i \in 1..Len(typed) : Occurs(CsvExportText, i)}
      query == \E i \in 1..Len(typed) : typed[i] = "?"
  IN /\ edits # {} =>
          fetched = SubSeq(typed, 1, Min(edits) - 1) \o ExportGidText \o id
     /\ (edits = {} /\ exports = {}) =>
          fetched = typed \o (IF query THEN <<"&">> ELSE <<"?">>) \o FormatCsvText
     /\ (edits = {} /\ exports # {}) => fetched = typed

\* C23 as stated: every submitted sheet URL is rewritten as claimed, and
\* rewriting the rewritten URL again changes nothing.
C23_RewriteIdempotent ==
  exportUrl # <<>> =>
    /\ RewrittenAsClaimed(url, exportUrl)
    /\ ExportUrlOf(exportUrl) = exportUrl

\* C23, amended: every submitted sheet URL is rewritten as claimed;
\* rewriting the result again changes nothing when the result holds
\* "export?format=csv" (every URL with "/edit", and every URL left
\* unchanged), and appends "&format=csv" once more when it does not.
C23_RewriteRule ==
  exportUrl # <<>> =>
    /\ RewrittenAsClaimed(url, exportUrl)
    /\ Includes(exportUrl, CsvExportText) => ExportUrlOf(exportUrl) = exportUrl
    /\ Includes(Trim(url), EditText) => Includes(exportUrl, CsvExportText)
    /\ ~Includes(exportUrl, CsvExportText) =>
         ExportUrlOf(exportUrl) = exportUrl \o <<"&">> \o FormatCsvText

\* C23 witness: "d/edit" and "gid=" and "7" is fetched as
\* "d/export?format=csv&gid=7".
C23_Witness ==
  /\ url = <<"d">> \o EditText \o GidText \o <<"7">>
  /\ exportUrl = <<"d">> \o ExportGidText \o <<"7">>

\* The entries of the chart on screen that the neon or the colorful palette
\* colours: no colour pinned to the label, no custom colour, no theme colour
\* chosen.
CycleEntries ==
  IF /\ OnBuilder /\ dataset.kind \in {"pie", "bar", "funnel"}
     /\ palette \in {"neon", "colorful"} /\ customHex = <<>> /\ colorVar = ""
  THEN {i \in 1..Len(dataset.labels) :
          ToText(dataset.labels[i]) \notin DOMAIN perValueColors}
  ELSE {}

\* C24: under the neon and the colorful palette, with no pinned, custom or
\* theme colour, the entry of index i (from 0) has the colour of the
\* palette's entry i mod 5 (neon) or i mod 6 (colorful), at the caller's
\* alpha 1; so the entries i and i + 5 (neon), i and i + 6 (colorful) have
\* the same colour, and every index has one.
C24_PaletteCycle ==
  LET neon == <<"--chart-neon-1", "--chart-neon-2", "--chart-neon-3",
                "--chart-neon-4", "--chart-neon-5">>
      colorful == <<"--chart-color-1", "--chart-color-2", "--chart-color-3",
                    "--chart-color-4", "--chart-color-5", "--chart-color-6">>
      size == IF palette = "neon" THEN 5 ELSE 6
      entry(i) == IF palette = "neon" THEN neon[((i - 1) % 5) + 1]
                  ELSE colorful[((i - 1) % 6) + 1]
  IN /\ \A i \in CycleEntries :
          dataset.backgroundColor[i] =
            IF theme[entry(i)] = "" THEN Literal(DefaultAccent)
            ELSE Hsl(theme[entry(i)], AlphaOne)
     /\ \A i, j \in CycleEntries :
          j = i + size => dataset.backgroundColor[j] = dataset.backgroundColor[i]

\* C24 witness: under the neon palette the sixth entry has the colour of
\* the first, the palette's first; the fifth has the palette's fifth.
C24_Witness ==
  /\ theme = FullTheme
  /\ palette = "neon"
  /\ {1, 5, 6} \subseteq CycleEntries
  /\ dataset.backgroundColor[6] = Hsl("--chart-neon-1", AlphaOne)
  /\ dataset.backgroundColor[1] = Hsl("--chart-neon-1", AlphaOne)
  /\ dataset.backgroundColor[5] = Hsl("--chart-neon-5", AlphaOne)

C27_BaseColorExclusive ==
  /\ [](~(colorVar # "" /\ customHex # <<>>))
  /\ [][ClickTheme => (colorVar' = "" /\ customHex' = <<>>)]_vars

\* C27 witness: a custom colour is set, no theme colour is, and the pie on
\* screen is drawn in the custom colour.
C27_Witness ==
  /\ OnBuilder
  /\ customHex = Green
  /\ colorVar = ""
  /\ perValueColors = EmptyMap
  /\ dataset.kind = "pie"
  /\ Len(dataset.labels) = 1
  /\ dataset.backgroundColor = <<Rgba(0, 255, 0, AlphaOne)>>

\* ------------------------------------------------------- the assistant
\* cmd.toLowerCase()
toLowerCase(text) ==
  LET upper == <<"A", "B", "C", "D", "E", "F", "G", "H", "I", "J", "K", "L", "M",
                 "N", "O", "P", "Q", "R", "S", "T", "U", "V", "W", "X", "Y", "Z">>
      lower == <<"a", "b", "c", "d", "e", "f", "g", "h", "i", "j", "k", "l", "m",
                 "n", "o", "p", "q", "r", "s", "t", "u", "v", "w", "x", "y", "z">>
  IN [i \in 1..Len(text) |->
        IF \E j \in 1..Len(upper) : upper[j] = text[i]
        THEN lower[CHOOSE j \in 1..Len(upper) : upper[j] = text[i]]
        ELSE text[i]]

\* A mutant of onApply that looks for "bar" before "line".
onApply_BarBeforeLine(cmd, ch) ==
  LET c == toLowerCase(cmd)
  IN IF Includes(c, <<"p", "i", "e">>) THEN "pie"
     ELSE IF Includes(c, <<"b", "a", "r">>) THEN "bar"
     ELSE IF Includes(c, <<"l", "i", "n", "e">>) THEN "line"
     ELSE IF Includes(c, <<"c", "o", "l", "u", "m", "n">>) THEN "column"
     ELSE IF Includes(c, <<"s", "c", "a", "t", "t", "e", "r">>) THEN "scatter"
     ELSE IF Includes(c, <<"f", "u", "n", "n", "e", "l">>) THEN "funnel"
     ELSE IF Includes(c, <<"h", "e", "a", "t">>) THEN "heatmap"
     ELSE ch

\* The Builder's onApply: the chart kind after the command cmd, ch being the
\* kind before it (no branch taken: setChart is not called).
onApply(cmd, ch) ==
  LET c == toLowerCase(cmd)
  IN IF Includes(c, <<"p", "i", "e">>) THEN "pie"
     ELSE IF Includes(c, <<"l", "i", "n", "e">>) THEN "line"
     ELSE IF Includes(c, <<"b", "a", "r">>) THEN "bar"
     ELSE IF Includes(c, <<"c", "o", "l", "u", "m", "n">>) THEN "column"
     ELSE IF Includes(c, <<"s", "c", "a", "t", "t", "e", "r">>) THEN "scatter"
     ELSE IF Includes(c, <<"f", "u", "n", "n", "e", "l">>) THEN "funnel"
     ELSE IF Includes(c, <<"h", "e", "a", "t">>) THEN "heatmap"
     ELSE ch

\* The text of the assistant message ask appends: the canned reply without
\* a key, the model's answer, the fallback for an answer without content,
\* the message of a rejection.
ReplyText(outcome) ==
  CASE outcome = "canned" -> <<"canned">>
    [] outcome = "content" -> <<"content">>
    [] outcome = "nocontent" -> <<"Sorry, no reply.">>
    [] OTHER -> <<"Request failed.">>
\* A message of role r appended by call a of ask.
Message(r, a, text) == [role |-> r, content |-> text, ask |-> a]

\* What an AIHelper handler leaves alone besides the assistant's state and
\* the chart kind.
HelperFrame ==
  /\ UNCHANGED <<pending, nextReq, routerVars, alertMsg, theme, uploadVars>>
  /\ UNCHANGED <<xField, yField, y2Field, colorVar, customHex, opacity, palette,
                 perValueColors>>

\* The question field: setInput(e.target.value).
SetInput(text) ==
  /\ OnBuilder
  /\ input' = text
  /\ UNCHANGED <<apiKey, messages, asking, nextAsk, applied, chart>>
  /\ HelperFrame
  /\ Rerender

\* The key field: setApiKey(e.target.value).
SetApiKey(text) ==
  /\ OnBuilder
  /\ apiKey' = text
  /\ UNCHANGED <<input, messages, asking, nextAsk, applied, chart>>
  /\ HelperFrame
  /\ Rerender

\* AIHelper.ask up to its await (the Ask button or Enter): nothing for a
\* blank question; else the user message is appended and the field cleared,
\* and without a key the canned reply is appended and the command applied,
\* with a key the fetch starts.
Ask ==
  /\ OnBuilder
  /\ LET question == Trim(input)
         a == nextAsk + 1
     IN IF question = <<>>
        THEN UNCHANGED <<helperVars, chart>>
        ELSE /\ nextAsk' = a
             /\ input' = <<>>
             /\ UNCHANGED apiKey
             /\ IF apiKey = <<>>
                THEN /\ messages' = messages \o <<Message("user", a, question),
                                                  Message("assistant", a, ReplyText("canned"))>>
                     /\ applied' = Append(applied, [ask |-> a, cmd |-> question,
                                                    seen |-> Len(messages) + 2])
                     /\ chart' = onApply(question, chart)
                     /\ UNCHANGED asking
                ELSE /\ messages' = Append(messages, Message("user", a, question))
                     /\ asking' = asking \cup {[id |-> a, question |-> question]}
                     /\ UNCHANGED <<applied, chart>>
  /\ HelperFrame
  /\ Rerender

\* How the fetch of a call of ask can end: an answer with content, an
\* answer without (any JSON body that has no choices[0].message.content,
\* whatever its status: res.ok is not read), a rejection of fetch or of
\* res.json().
AskOutcomes == {"content", "nocontent", "throw"}

\* A mutant of AskSettles whose catch applies the command as well.
AskSettles_AppliesOnFailure(a, outcome) ==
  /\ OnBuilder
  /\ a \in asking
  /\ outcome \in AskOutcomes
  /\ asking' = asking \ {a}
  /\ messages' = Append(messages, Message("assistant", a.id, ReplyText(outcome)))
  /\ applied' = Append(applied, [ask |-> a.id, cmd |-> a.question,
                                 seen |-> Len(messages) + 1])
  /\ chart' = onApply(a.question, chart)
  /\ UNCHANGED <<apiKey, input, nextAsk>>
  /\ HelperFrame
  /\ Rerender

\* The continuation of ask after its awaits: the reply (or the fallback) is
\* appended and the command applied; a rejection appends its message and
\* applies nothing.
AskSettles(a, outcome) ==
  /\ OnBuilder
  /\ a \in asking
  /\ outcome \in AskOutcomes
  /\ asking' = asking \ {a}
  /\ messages' = Append(messages, Message("assistant", a.id, ReplyText(outcome)))
  /\ IF outcome = "throw"
     THEN UNCHANGED <<applied, chart>>
     ELSE /\ applied' = Append(applied, [ask |-> a.id, cmd |-> a.question,
                                         seen |-> Len(messages) + 1])
          /\ chart' = onApply(a.question, chart)
  /\ UNCHANGED <<apiKey, input, nextAsk>>
  /\ HelperFrame
  /\ Rerender

\* Whether ask may still be called in a run that allows limit questions.
CanAsk(limit) == OnBuilder /\ nextAsk < limit

\* The table the assistant runs are about: one text column, one numeric.
HelperGrid == <<Cells(<<T("l"), T("v")>>), Cells(<<T("p"), T("1")>>)>>

\* Commands: up to MaxCmdParts parts, each a keyword, a keyword in capitals,
\* a kind that is no keyword, or filler.
MaxCmdParts == 2
CmdParts == {<<"p", "i", "e">>, <<"l", "i", "n", "e">>, <<"b", "a", "r">>,
             <<"c", "o", "l", "u", "m", "n">>, <<"s", "c", "a", "t", "t", "e", "r">>,
             <<"f", "u", "n", "n", "e", "l">>, <<"h", "e", "a", "t">>,
             <<"L", "i", "n", "e">>, <<"c", "o", "m", "b", "o">>,
             <<"t", "a", "b", "l", "e">>, <<" ">>, <<"x">>}

NextCommand ==
  \/ Idle(1) /\ OnFiles(CsvSource(HelperGrid))
  \/ \E req \in pending : Settle(req)
  \/ nextAsk = 0 /\ \E k \in ChartKinds : SetChart(k)
  \/ CanAsk(1) /\ input = <<>> /\ \E k \in 1..MaxCmdParts :
                                    \E parts \in [1..k -> CmdParts] : SetInput(Flatten(parts))
  \/ CanAsk(1) /\ Ask

SpecCommand == Init /\ [][NextCommand]_vars

\* The keywords in the order the command is matched against them, each with
\* the chart kind it selects.
KeywordOrder ==
  <<[kw |-> <<"p", "i", "e">>, kind |-> "pie"],
    [kw |-> <<"l", "i", "n", "e">>, kind |-> "line"],
    [kw |-> <<"b", "a", "r">>, kind |-> "bar"],
    [kw |-> <<"c", "o", "l", "u", "m", "n">>, kind |-> "column"],
    [kw |-> <<"s", "c", "a", "t", "t", "e", "r">>, kind |-> "scatter"],
    [kw |-> <<"f", "u", "n", "n", "e", "l">>, kind |-> "funnel"],
    [kw |-> <<"h", "e", "a", "t">>, kind |-> "heatmap"]>>
KeywordsIn(cmd) ==
  {i \in 1..Len(KeywordOrder) : Includes(toLowerCase(cmd), KeywordOrder[i].kw)}

\* C26: whenever a command is applied, the chart kind becomes the kind of
\* the first keyword, in the order pie, line, bar, column, scatter, funnel,
\* heat, that the lower-cased command contains (heat gives heatmap); it
\* stays as it was when the command contains none; and a command never
\* makes the kind combo or table.
C26_FirstKeywordWins ==
  [][applied' # applied =>
       LET cmd == applied'[Len(applied')].cmd
           hits == KeywordsIn(cmd)
       IN /\ IF hits = {}
             THEN chart' = chart
             ELSE chart' = KeywordOrder[CHOOSE i \in hits : \A j \in hits : i <= j].kind
          /\ chart' # chart => chart' \notin {"combo", "table"}]_vars

\* A command containing both "bar" and "line", with "bar" first in the text,
\* was applied and the chart is a line chart.
C26_Witness ==
  /\ applied # <<>>
  /\ applied[1].cmd = <<"b", "a", "r", "l", "i", "n", "e">>
  /\ chart = "line"

\* Questions: up to MaxAsks of them, blank ones, a command with blanks
\* around it, a question that is no command; with and without a key.
MaxAsks == 2
Questions == {<<>>, <<" ">>, <<" ", "p", "i", "e", " ">>, <<"b", "a", "r">>, <<"x">>}
ApiKeys == {<<>>, <<"k">>}

NextHelper ==
  \/ Idle(1) /\ OnFiles(CsvSource(HelperGrid))
  \/ \E req \in pending : Settle(req)
  \/ \E text \in ApiKeys : SetApiKey(text)
  \/ CanAsk(MaxAsks) /\ \E text \in Questions : SetInput(text)
  \/ CanAsk(MaxAsks) /\ Ask
  \/ \E a \in asking, outcome \in AskOutcomes : AskSettles(a, outcome)

SpecHelper == Init /\ [][NextHelper]_vars

\* The places in messages of the messages of role r that call a of ask
\* appended, and the places in applied of its calls of onApply.
MessagesOf(a, r) == {i \in 1..Len(messages) : messages[i].ask = a /\ messages[i].role = r}
AppliedOf(a) == {j \in 1..Len(applied) : applied[j].ask = a}

OpacitySteps == {5 * k : k \in 1..20}

\* The opacity slider: setOpacity(v[0] ?? 0.35).
SetOpacity(v) ==
  /\ OnBuilder
  /\ v \in OpacitySteps
  /\ opacity' = v
  /\ UNCHANGED <<chart, xField, yField, y2Field, colorVar, customHex, palette,
                 perValueColors>>
  /\ BuilderFrame
  /\ Rerender

OpacityRows == {Cells(<<T("p"), T("1")>>), Cells(<<T("q"), T("2")>>)}

NextOpacity ==
  \/ Idle(1) /\ UploadGrid(<<T("l"), T("v")>>, OpacityRows, MaxDataRows)
  \/ \E req \in pending : Settle(req)
  \/ \E k \in ChartKinds : SetChart(k)
  \/ \E pal \in Palettes : SetPalette(pal)
  \/ ClickTheme
  \/ ClickNeon(1)
  \/ \E text \in {Green, <<>>} : ChangeCustomHex(text)
  \/ \E v \in OpacitySteps : SetOpacity(v)

SpecOpacity == Init /\ [][NextOpacity]_vars

\* C29: a change of the opacity, with the table, the chart kind, the field
\* selection and the colour settings as they were, leaves the dataset of the
\* chart on screen (labels, values, colours) as it was.
C29_OpacityIgnored ==
  [][(/\ OnBuilder
      /\ opacity' # opacity
      /\ table' = table /\ chart' = chart
      /\ <<xField, yField, y2Field>>' = <<xField, yField, y2Field>>
      /\ <<colorVar, customHex, palette, perValueColors, theme>>'
           = <<colorVar, customHex, palette, perValueColors, theme>>)
     => dataset' = dataset]_vars

\* A column chart of one row is on screen with the slider moved to 5%.
C29_Witness ==
  /\ OnBuilder
  /\ chart = "column"
  /\ opacity = 5
  /\ dataset.kind = "bar"
  /\ Len(dataset.backgroundColor) = 1

\* ------------------------------------------------------- numeric tables
\* Tables without a string-bearing column: every cell a number or empty;
\* one of the headers may be the word "undefined".
UndefinedText == <<"u", "n", "d", "e", "f", "i", "n", "e", "d">>
NumericHeaders == {<<T("a"), T("b")>>, <<UndefinedText, T("b")>>, <<T("a"), UndefinedText>>}
NumericRows == {Cells(<<a, b>>) : a \in {T("1"), T("2"), <<>>}, b \in {T("1"), T("2")}}
NumericCharts == {"heatmap", "column"}

NextNumeric ==
  \/ Idle(1) /\ \E h \in NumericHeaders : UploadGrid(h, NumericRows, MaxSmallRows)
  \/ \E req \in pending : Settle(req)
  \/ \E k \in NumericCharts : SetChart(k)
  \/ \E v \in FieldOptions : SetXField(v)

SpecNumeric == Init /\ [][NextNumeric]_vars

\* C30: while the heatmap of a table without string-bearing column is on
\* screen, its x categories are the row labels (the x cell of each row,
\* "Row i" for a missing one) and every cell of it holds 0.
C30_NumericHeatmapZero ==
  (/\ OnBuilder
   /\ chart = "heatmap"
   /\ extractCategoricalColumns(table) = <<>>)
  => /\ dataset.kind = "heatmap"
     /\ dataset.labels = LabelsOf([table |-> table, xField |-> xField])
     /\ \A c \in 1..Len(dataset.data) : dataset.data[c].v = IntNum(0)

====
